---------------------------- MODULE Spec2Model ----------------------------
(***************************************************************************)
(* State-machine model of PlanetProfile's magnetic induction engine        *)
(* (src/PlanetProfile/MagneticInduction/MagneticInduction.py).             *)
(*                                                                         *)
(* Numbers.  Python floats are held as exact rationals <<num, den>> in     *)
(* lowest terms with den > 0; NaN is the pair <<0, 0>> and follows the     *)
(* IEEE rules the code relies on (every ordering test with NaN is false,   *)
(* NaN != x is true); +inf and -inf are <<1, 0>> and <<-1, 0>>.  Complex   *)
(* numbers are pairs <<re, im>> of rationals.                              *)
(* Python None is the empty tuple << >>; a value v that may be None is     *)
(* held as <<v>>.  Arrays are 1-based sequences; where the code uses a     *)
(* 0-based or negative index the translation is written out.               *)
(***************************************************************************)
EXTENDS Integers, Sequences, FiniteSets, TLC

(* ------------------------------ rationals ------------------------------ *)

NaN == <<0, 0>>
Inf == <<1, 0>>

IAbs(i) == IF i < 0 THEN -i ELSE i

RECURSIVE GCD(_, _)
GCD(a, b) == IF b = 0 THEN a ELSE GCD(b, a % b)

Rat(n, d) ==
    IF d = 0 THEN (IF n > 0 THEN Inf ELSE IF n < 0 THEN <<-1, 0>> ELSE NaN)
    ELSE LET g == GCD(IAbs(n), IAbs(d))
             s == IF d < 0 THEN -1 ELSE 1
         IN  <<(s * n) \div g, (s * d) \div g>>

RInt(i) == <<i, 1>>

isnan(x) == x = NaN

\* np.isfinite
isfinite(x) == x[2] # 0

RAdd(x, y) == IF isnan(x) \/ isnan(y) THEN NaN
              ELSE Rat(x[1] * y[2] + y[1] * x[2], x[2] * y[2])

RNeg(x) == IF isnan(x) THEN NaN ELSE <<-x[1], x[2]>>

RSub(x, y) == RAdd(x, RNeg(y))

RMul(x, y) == IF isnan(x) \/ isnan(y) THEN NaN
              ELSE Rat(x[1] * y[1], x[2] * y[2])

RDiv(x, y) == IF isnan(x) \/ isnan(y) THEN NaN
              ELSE Rat(x[1] * y[2], x[2] * y[1])

\* Python's <, <=, >, >= and != on floats: false (true for !=) when a side is NaN
RLt(x, y) == /\ ~isnan(x) /\ ~isnan(y)
             /\ IF x[2] = 0 /\ y[2] = 0 THEN x[1] < y[1]
                ELSE x[1] * y[2] < y[1] * x[2]
RLe(x, y) == /\ ~isnan(x) /\ ~isnan(y)
             /\ IF x[2] = 0 /\ y[2] = 0 THEN x[1] <= y[1]
                ELSE x[1] * y[2] <= y[1] * x[2]
RGt(x, y) == RLt(y, x)
RGe(x, y) == RLe(y, x)
REq(x, y) == ~isnan(x) /\ ~isnan(y) /\ x = y
RNe(x, y) == ~REq(x, y)

RAbs(x) == IF isnan(x) THEN NaN ELSE <<IAbs(x[1]), x[2]>>

RECURSIVE RPow(_, _)
RPow(x, k) == IF k = 0 THEN RInt(1) ELSE RMul(x, RPow(x, k - 1))

(* ------------------------------- arrays -------------------------------- *)

\* np.flip
Flip(s) == [i \in 1..Len(s) |-> s[Len(s) + 1 - i]]

\* s[iFrom..iTo] (1-based, inclusive); empty when iFrom > iTo
Slice(s, iFrom, iTo) == IF iFrom > iTo THEN << >> ELSE SubSeq(s, iFrom, iTo)

\* the ascending sequence of the members of a set of integers
RECURSIVE SortedSeq(_)
SortedSeq(S) == IF S = {} THEN << >>
                ELSE LET m == CHOOSE x \in S : \A y \in S : x <= y
                     IN  <<m>> \o SortedSeq(S \ {m})

\* s[idx] for an index array idx
Take(s, idx) == [k \in 1..Len(idx) |-> s[idx[k]]]

Range(s) == {s[i] : i \in DOMAIN s}


(* ----------------------- program constants ----------------------------- *)

\* Constants.sigmaDef_Sm and Constants.sigmaMin_Sm (PlanetProfile's
\* defineStructs, not among the source files), in units of 1e-9 S/m: the
\* default conductivity assigned to unusable values, and the threshold below
\* which a conductivity is replaced by it
sigmaDef_Sm == 10
sigmaMin_Sm == 10

(* ------------------ SetupInduction: the layer reduction ---------------- *)

\* indsLiq = np.where(np.flip(Planet.phase) == 0)[0], as 1-based positions of
\* the flipped (ascending-radius) arrays
indsLiqOf(Planet) ==
    SortedSeq({i \in 1..Len(Planet.phase) : Flip(Planet.phase)[i] = 0})

\* The ionosphere block: the (possibly reset) Magnetic.ionosBounds_m and
\* Magnetic.sigmaIonosPedersen_Sm, and the arrays zIonos_m, sigmaIonos_Sm
\* appended to the profile.  A list-valued field that is None is << >>.
IonosArrays(Planet) ==
    LET b0 == Planet.Magnetic.ionosBounds_m
        s0 == Planet.Magnetic.sigmaIonosPedersen_Sm
        unset == b0 = << >> \/ s0 = << >>
        b1 == IF unset THEN <<NaN>> ELSE b0
        s1 == IF unset THEN <<NaN>> ELSE s0
        allNaN == (\A i \in DOMAIN b1 : isnan(b1[i])) \/ (\A i \in DOMAIN s1 : isnan(s1[i]))
    IN  IF allNaN
        THEN [ionosBounds_m |-> <<NaN>>, sigmaIonosPedersen_Sm |-> <<NaN>>,
              zIonos_m |-> << >>, sigmaIonos_Sm |-> << >>]
        ELSE [ionosBounds_m |-> b1, sigmaIonosPedersen_Sm |-> s1,
              zIonos_m |-> [i \in DOMAIN b1 |-> RAdd(Planet.Bulk.R_m, b1[i])],
              sigmaIonos_Sm |-> IF Len(s1) = 1 /\ Len(b1) = 2
                                THEN <<RInt(0)>> \o s1 ELSE s1]

\* sigmaInduct_Sm[isnan | == 0] = sigmaDef; sigmaInduct_Sm[< sigmaMin] = sigmaDef
FloorSigma(sigmaInduct_Sm) ==
    LET a == [i \in DOMAIN sigmaInduct_Sm |->
                 IF isnan(sigmaInduct_Sm[i]) \/ REq(sigmaInduct_Sm[i], RInt(0))
                 THEN RInt(sigmaDef_Sm) ELSE sigmaInduct_Sm[i]]
    IN  [i \in DOMAIN a |-> IF RLt(a[i], RInt(sigmaMin_Sm)) THEN RInt(sigmaDef_Sm) ELSE a[i]]

\* np.linspace(lo, hi, n+1)[:-1]
LinspaceHead(lo, hi, n) ==
    [k \in 1..n |-> RAdd(lo, RDiv(RMul(RInt(k - 1), RSub(hi, lo)), RInt(n)))]

\* np.linspace(lo, hi, n+1)[1:]
LinspaceTail(lo, hi, n) ==
    [k \in 1..n |-> RAdd(lo, RDiv(RMul(RInt(k), RSub(hi, lo)), RInt(n)))]

\* scipy interp1d(x, y, kind='linear', bounds_error=False, fill_value=fill)(xs)
\* for ascending x: linear between the bracketing knots, fill outside them
Interp1(x, y, fill, xv) ==
    IF RLt(xv, x[1]) \/ RGt(xv, x[Len(x)]) \/ isnan(xv) THEN fill
    ELSE IF \E k \in DOMAIN x : REq(x[k], xv)
         THEN y[CHOOSE k \in DOMAIN x : REq(x[k], xv)]
         ELSE LET k == CHOOSE j \in 1..(Len(x) - 1) : RLt(x[j], xv) /\ RLt(xv, x[j + 1])
              IN  RAdd(y[k], RDiv(RMul(RSub(y[k + 1], y[k]), RSub(xv, x[k])),
                                  RSub(x[k + 1], x[k])))

interp1d(x, y, fill, xs) == [i \in DOMAIN xs |-> Interp1(x, y, fill, xs[i])]

\* The optional shrinking of the ocean to nIntL layers (lines 444-466):
\* the stitched <<rLayers_m, sigmaInduct_Sm>>
ReduceOcean(Planet, Params, indsLiq, rLayers_m, sigmaInduct_Sm) ==
    LET iFirst == indsLiq[1]
        iLast  == indsLiq[Len(indsLiq)]
        rBot_m == RSub(Planet.Bulk.R_m,
                       RMul(RAdd(Planet.zb_km, Planet.D_km), RInt(1000)))
        rTop_m == rLayers_m[iLast]
        rOcean_m == LinspaceTail(rBot_m, rTop_m, Params.Induct.nIntL)
        rModel_m == IF Len(indsLiq) = 1
                    THEN <<rBot_m>> \o Take(rLayers_m, indsLiq)
                    ELSE Take(rLayers_m, indsLiq)
        sigmaModel_Sm ==
            IF Len(indsLiq) = 1
            THEN <<RMul(sigmaInduct_Sm[iFirst], Rat(1001, 1000))>> \o Take(sigmaInduct_Sm, indsLiq)
            ELSE Take(sigmaInduct_Sm, indsLiq)
        sigmaOcean_Sm == interp1d(rModel_m, sigmaModel_Sm, RInt(sigmaDef_Sm), rOcean_m)
    IN  << Slice(rLayers_m, 1, iFirst - 1) \o rOcean_m
              \o Slice(rLayers_m, iLast + 1, Len(rLayers_m)),
           Slice(sigmaInduct_Sm, 1, iFirst - 1) \o sigmaOcean_Sm
              \o Slice(sigmaInduct_Sm, iLast + 1, Len(sigmaInduct_Sm)) >>

\* the indices of the layers that differ from the layer before them
iChangeFirst(sigmaInduct_Sm) ==
    SortedSeq({i \in DOMAIN sigmaInduct_Sm :
                  i = 1 \/ RNe(sigmaInduct_Sm[i], sigmaInduct_Sm[i - 1])})

\* iChange = [i for i, sig in enumerate(sigma) if sig != np.append(sigma, nan)[i+1]]
iChangeOf(sigmaInduct_Sm) ==
    LET ext == Append(sigmaInduct_Sm, NaN)
    IN  SortedSeq({i \in DOMAIN sigmaInduct_Sm : RNe(sigmaInduct_Sm[i], ext[i + 1])})

\* Lines 414-471: rebuild the ionosphere fields and the reduced arrays
\* Magnetic.sigmaLayers_Sm and Magnetic.rSigChange_m from the full profile
ReduceLayers(Planet, Params) ==
    LET indsLiq == indsLiqOf(Planet)
        ion == IonosArrays(Planet)
        rLayers0 == Flip(Slice(Planet.r_m, 1, Len(Planet.r_m) - 1)) \o ion.zIonos_m
        sigma0 == FloorSigma(Flip(Planet.sigma_Sm) \o ion.sigmaIonos_Sm)
        red == IF Len(indsLiq) # 0 /\ Params.Sig.REDUCED_INDUCT /\ ~Planet.Do.NO_H2O
               THEN ReduceOcean(Planet, Params, indsLiq, rLayers0, sigma0)
               ELSE <<rLayers0, sigma0>>
        iChange == iChangeOf(red[2])
    IN  [Planet EXCEPT !.Magnetic.ionosBounds_m = ion.ionosBounds_m,
                       !.Magnetic.sigmaIonosPedersen_Sm = ion.sigmaIonosPedersen_Sm,
                       !.Magnetic.sigmaLayers_Sm = Take(red[2], iChange),
                       !.Magnetic.rSigChange_m = Take(red[1], iChange)]

\* Lines 473-476: the optional scaling of the "ocean" layers.  The code
\* subtracts zb_km and D_km (kilometres) from R_m (metres) as they are.
ApplyScaling(Planet) ==
    IF Planet.Magnetic.sigmaScaling = << >> THEN Planet
    ELSE LET r == Planet.Magnetic.rSigChange_m
             iOcean == [i \in DOMAIN r |->
                           RLe(r[i], RSub(Planet.Bulk.R_m, Planet.zb_km))
                           /\ RGt(r[i], RSub(Planet.Bulk.R_m, Planet.D_km))]
         IN  [Planet EXCEPT !.Magnetic.sigmaLayers_Sm =
                 [i \in DOMAIN @ |-> IF iOcean[i]
                                     THEN RMul(@[i], Planet.Magnetic.sigmaScaling[1])
                                     ELSE @[i]]]


(* --------------------------- complex numbers --------------------------- *)

Cx(re, im) == <<re, im>>
CInt(a, b) == <<RInt(a), RInt(b)>>
CZero == CInt(0, 0)
CAdd(z, w) == <<RAdd(z[1], w[1]), RAdd(z[2], w[2])>>
CMul(z, w) == <<RSub(RMul(z[1], w[1]), RMul(z[2], w[2])),
                RAdd(RMul(z[1], w[2]), RMul(z[2], w[1]))>>
\* a real factor times a complex number
CScale(r, z) == <<RMul(r, z[1]), RMul(r, z[2])>>
CConj(z) == <<z[1], RNeg(z[2])>>

\* the exact square root of a rational that is a perfect square
ISqrt(k) == CHOOSE r \in 0..k : r * r = k
RSqrt(x) == <<ISqrt(x[1]), ISqrt(x[2])>>

\* np.abs of a complex number (the model's amplitudes have rational moduli)
CAbs(z) == RSqrt(RAdd(RMul(z[1], z[1]), RMul(z[2], z[2])))

\* np.angle, held as the unit complex number exp(i*angle); np.angle(0) = 0
CAngle(z) == IF z = CZero THEN CInt(1, 0)
             ELSE CScale(RDiv(RInt(1), CAbs(z)), z)
\* the negated angle, -np.angle(z)
NegAngle(a) == CConj(a)

(* ------------------------------- tensors ------------------------------- *)

\* An array of shape n1 x 2 x D x D (first index a frequency or a layer,
\* then sign of order, degree, |order|), all indices 0-based
Idx4(n1, D) == (0..(n1 - 1)) \X (0..1) \X (0..(D - 1)) \X (0..(D - 1))
Zeros4(n1, D) == [n1 |-> n1, D |-> D, v |-> [ix \in Idx4(n1, D) |-> CZero]]

\* the array of np.zeros_like(None): it has no axes
ZeroD == [n1 |-> 0, D |-> 0, v |-> << >>]

\* Python's index normalisation on an axis of the given size: a negative
\* index counts from the end; the result -1 stands for IndexError
PyIdx(k, size) == IF k >= 0 /\ k < size THEN k
                  ELSE IF k < 0 /\ k + size >= 0 THEN k + size
                  ELSE -1

None == << >>
Some(v) == <<v>>


(* ------------------- the excitation catalog and files ------------------ *)

\* The named oscillations, in the order of the excSelection dict and of the
\* catalog's keys
ExcNames == <<"orbital", "synodic">>

\* Excitations.Texc_hr[bodyname] (PlanetProfile.MagneticInduction.Moments):
\* the catalog period of each named oscillation in hours, None where the
\* body has no such oscillation
ExcitationsTexc_hr(bodyname) ==
    IF bodyname = "Europa"
    THEN [orbital |-> Some(RInt(85)), synodic |-> Some(RInt(11))]
    ELSE [orbital |-> Some(RInt(141)), synodic |-> None]

\* bodyname[:4] == 'Test'
IsTestBody(bodyname) == bodyname \in {"Test", "Test0"}

\* The excitation data files on disk, by <<body, era, model>> of the file
\* name Be1xyz_{body}_{era}_{model}.txt: tabulated periods (hr), the
\* degree-1 moments of each period for m' = -1, 0, 1, and the background
\* field.  No other file exists.
ExcFileKeys == {<<"Europa", "Galileo", "JRM09">>}
ExcFile(key) ==
    [Texc_hr |-> <<RInt(11), RInt(85)>>,
     Be1 |-> << [neg1 |-> CInt(3, 4), zero |-> CInt(2, 0), pos1 |-> CInt(-3, 4)],
                [neg1 |-> CInt(1, 0), zero |-> CInt(0, 1), pos1 |-> CInt(-1, 0)] >>,
     B0_nT |-> <<RInt(5), RInt(0), RInt(-400)>>]

\* MoonMag's read_Benm(nprmMax, pMax, fpath, fName): the file's periods and
\* its moments in an array of shape N x 2 x (nprmMax+pMax+1) x (nprmMax+pMax+1)
\* holding the degree-1 moments, everything else zero
GetBenm(nprmMax, pMax, file) ==
    LET N == Len(file.Texc_hr)
        D == nprmMax + pMax + 1
    IN  [inpTexc_hr |-> file.Texc_hr,
         inpBenm_nT |->
            [n1 |-> N, D |-> D,
             v |-> [ix \in Idx4(N, D) |->
                      IF ix[3] = 1 /\ ix[2] = 0 /\ ix[4] = 0 THEN file.Be1[ix[1] + 1].zero
                      ELSE IF ix[3] = 1 /\ ix[2] = 0 /\ ix[4] = 1 THEN file.Be1[ix[1] + 1].pos1
                      ELSE IF ix[3] = 1 /\ ix[2] = 1 /\ ix[4] = 1 THEN file.Be1[ix[1] + 1].neg1
                      ELSE CZero]],
         B0_nT |-> file.B0_nT]

\* np.argmin(abs(x - target)): the first position of the least distance
ArgMinAbs(x, target) ==
    CHOOSE i \in DOMAIN x :
        /\ \A j \in DOMAIN x : RLe(RAbs(RSub(x[i], target)), RAbs(RSub(x[j], target)))
        /\ \A j \in 1..(i - 1) : RLt(RAbs(RSub(x[i], target)), RAbs(RSub(x[j], target)))

\* The cache label BeLabel = f'{bodyname}Be{nprmMax}{era}{model}{excSelection}',
\* held as the tuple of its parts
BeLabel(bodyname, era, model, excSelection, nprmMax) ==
    <<bodyname, "Be", nprmMax, era, model, excSelection>>

\* The names of the selected oscillations the catalog knows, in dict order
PeakNames(bodyname, excSelection) ==
    LET BeList == ExcitationsTexc_hr(bodyname)
    IN  SelectSeq(ExcNames, LAMBDA k : excSelection[k] /\ BeList[k] # None)

\* a null spectrum that is also entered in the cache under the label
BexcMissingCached(loaded, label) ==
    [Texc_hr |-> None, omegaExc_radps |-> None, Benm_nT |-> None, B0_nT |-> None,
     loaded |-> [k \in DOMAIN loaded \cup {label} |->
                    IF k = label THEN <<None, None, None, None>> ELSE loaded[k]]]

\* Lines 609-611: no excitation file is found; the four outputs are None and
\* EOSlist.loaded is left as it is
BexcMissing(loaded, label) ==
    [Texc_hr |-> None, omegaExc_radps |-> None, Benm_nT |-> None, B0_nT |-> None,
     loaded |-> loaded]

\* GetBexc (lines 536-613): the returned (Texc_hr, omegaExc_radps, Benm_nT,
\* B0_nT), each None or Some(value), and EOSlist.loaded afterwards.
\* omegaExc_radps is held in units of 2 pi / 3600 rad/s, i.e. as 1 / Texc_hr.
GetBexc(bodyname, era, model, excSelection, nprmMaxArg, pMax, loaded) ==
    LET label == BeLabel(bodyname, era, model, excSelection, nprmMaxArg)
    IN  IF label \in DOMAIN loaded
        THEN [Texc_hr |-> loaded[label][1], omegaExc_radps |-> loaded[label][2],
              Benm_nT |-> loaded[label][3], B0_nT |-> loaded[label][4],
              loaded |-> loaded]
        ELSE
        LET fileKey == <<IF IsTestBody(bodyname) THEN "Test" ELSE bodyname, era, model>>
            nprmMax == IF nprmMaxArg > 1 THEN 1 ELSE nprmMaxArg
        IN  IF fileKey \in ExcFileKeys
            THEN LET inp == GetBenm(nprmMax, pMax, ExcFile(fileKey))
                     BeList == ExcitationsTexc_hr(bodyname)
                     peaks == PeakNames(bodyname, excSelection)
                     nPeaks == Len(peaks)
                     D == nprmMax + pMax + 1
                     iClosest == [k \in 1..nPeaks |->
                                    ArgMinAbs(inp.inpTexc_hr, BeList[peaks[k]][1])]
                     Texc_hr == [k \in 1..nPeaks |-> inp.inpTexc_hr[iClosest[k]]]
                     Benm_nT == [n1 |-> nPeaks, D |-> D,
                                 v |-> [ix \in Idx4(nPeaks, D) |->
                                          inp.inpBenm_nT.v[<<iClosest[ix[1] + 1] - 1,
                                                             ix[2], ix[3], ix[4]>>]]]
                     omegaExc_radps == [k \in 1..nPeaks |-> RDiv(RInt(1), Texc_hr[k])]
                     entry == <<Some(Texc_hr), Some(omegaExc_radps), Some(Benm_nT),
                                Some(inp.B0_nT)>>
                 IN  [Texc_hr |-> entry[1], omegaExc_radps |-> entry[2],
                      Benm_nT |-> entry[3], B0_nT |-> entry[4],
                      loaded |-> [k \in DOMAIN loaded \cup {label} |->
                                     IF k = label THEN entry ELSE loaded[k]]]
            ELSE BexcMissing(loaded, label)


(* ------------------------ the asymmetric shape ------------------------- *)

\* None for an integer-valued field (Magnetic.pMax)
NoneInt == 0 - 1

\* np.unique of an array of rationals: its distinct values, ascending
RECURSIVE RSortedSeq(_)
RSortedSeq(S) == IF S = {} THEN << >>
                 ELSE LET m == CHOOSE x \in S : \A y \in S : RLe(x, y)
                      IN  <<m>> \o RSortedSeq(S \ {m})

\* max of a non-empty set of integers
IMax(S) == CHOOSE x \in S : \A y \in S : y <= x

\* The shape files in Params.DataFiles.inductPath, by <<name, suffix>> of the
\* file name {name}{asymFstring}{suffix}.txt.  Each holds rows (p, q, Cpq_km,
\* Spq_km), in a well-formed file in the order p = 0.., q = 0..p.
\* Europa has a surface file up to degree 3 and an ice-bottom file up to
\* degree 2; Enceladus one file up to degree 1; Callisto a good file and one
\* whose (0, 0) row is not the first; Ganymede only such a file; any other
\* body has none.
ShapeFileKeys == <<  <<"Europa", "">>, <<"Europa", "_iceBottom">>,
                     <<"Enceladus", "">>,
                     <<"Callisto", "">>, <<"Callisto", "_seafloor">>,
                     <<"Ganymede", "">>  >>
ShapeFile(key) ==
    IF key = <<"Europa", "">>
    THEN [pLin |-> <<0, 1, 1, 2, 2, 2, 3, 3, 3, 3>>,
          qLin |-> <<0, 0, 1, 0, 1, 2, 0, 1, 2, 3>>,
          Cpq_km |-> <<RInt(0), RInt(0), RInt(0), RInt(2), RInt(0), RInt(1),
                       RInt(0), RInt(0), RInt(0), RInt(1)>>,
          Spq_km |-> <<RInt(0), RInt(0), RInt(0), RInt(0), RInt(0), RInt(-1),
                       RInt(0), RInt(0), RInt(0), RInt(0)>>]
    ELSE IF key = <<"Enceladus", "">>
    THEN [pLin |-> <<0, 1, 1>>,
          qLin |-> <<0, 0, 1>>,
          Cpq_km |-> <<RInt(1), RInt(0), RInt(1)>>,
          Spq_km |-> <<RInt(0), RInt(1), RInt(0)>>]
    ELSE IF key \in {<<"Callisto", "_seafloor">>, <<"Ganymede", "">>}
    THEN [pLin |-> <<1, 1, 2, 2, 2, 0>>,
          qLin |-> <<0, 1, 0, 1, 2, 0>>,
          Cpq_km |-> <<RInt(0), RInt(1), RInt(1), RInt(0), RInt(0), RInt(2)>>,
          Spq_km |-> <<RInt(0), RInt(0), RInt(0), RInt(1), RInt(0), RInt(0)>>]
    ELSE [pLin |-> <<0, 1, 1, 2, 2, 2>>,
          qLin |-> <<0, 0, 1, 0, 1, 2>>,
          Cpq_km |-> <<RInt(2), RInt(0), RInt(1), RInt(1), RInt(0), RInt(0)>>,
          Spq_km |-> <<RInt(0), RInt(0), RInt(0), RInt(0), RInt(1), RInt(0)>>]

\* glob(f'{name}{asymFstring}*.txt')
FilesMatchingPattern(name) == SelectSeq(ShapeFileKeys, LAMBDA k : k[1] = name)

\* the cache label of a loaded shape file (its path)
ShapeLabel(key) == <<"shape", key[1], key[2]>>

\* MoonMag's norm4pi(p, q), the 4 pi normalisation factor: an external routine
\* whose irrational values are stood for by positive rationals
normFactor_4pi(p, q) == RInt(q + 1)

\* MoonMag's get_chipq_from_CSpq_single(p, C, S): the complex coefficients
\* chi_pq of shape 2 x (p+1) (sign of q, |q|) of real cosine/sine coefficients,
\* with Condon-Shortley phase; the common normalisation constant is the unit.
\* C and S are 1-based sequences over q = 0..p.
GeodesyNorm2chipq(p, C, S) ==
    [sq \in (0..1) \X (0..p) |->
        LET q == sq[2]
            c == C[q + 1]
            sn == S[q + 1]
        IN  IF q = 0 THEN (IF sq[1] = 0 THEN Cx(c, RInt(0)) ELSE CZero)
            ELSE IF sq[1] = 0
                 THEN CScale(RInt(IF q % 2 = 0 THEN 1 ELSE -1), Cx(c, RNeg(sn)))
                 ELSE Cx(c, sn)]

\* a None gravity coefficient is treated as 0
OrZero(x) == IF x = None THEN RInt(0) ELSE x[1]

\* SetGravShape (lines 640-695)
SetGravShape(Planet) ==
    LET B == Planet.Bulk
        C20 == IF B.J2 = None /\ B.C20 = None THEN RInt(0)
               ELSE IF B.C20 = None THEN RNeg(B.J2[1]) ELSE B.C20[1]
        J2 == IF B.J2 = None /\ B.C20 = None THEN Some(RInt(0)) ELSE B.J2
        p == 2
        C2q == <<C20, OrZero(B.C21), OrZero(B.C22)>>
        S2q == <<RInt(0), OrZero(B.S21), OrZero(B.S22)>>
        five2 == Rat(5, 2)
        base == RMul(five2, RSub(RInt(1), RMul(Rat(3, 2), B.Cmeasured)))
        u == RMul(base, base)
        kf == RDiv(RSub(RInt(4), u), RAdd(RInt(1), u))
        hf == RAdd(kf, RInt(1))
        H2c_4pi_m == [q \in 1..(p + 1) |->
                        RDiv(RMul(RMul(hf, C2q[q]), B.R_m), normFactor_4pi(p, q - 1))]
        H2s_4pi_m == [q \in 1..(p + 1) |->
                        RDiv(RMul(RMul(hf, S2q[q]), B.R_m), normFactor_4pi(p, q - 1))]
        g_chipq_m == GeodesyNorm2chipq(p, H2c_4pi_m, H2s_4pi_m)
        r == Planet.Magnetic.rSigChange_m
        radialScale == [i \in DOMAIN r |-> RDiv(r[i], B.R_m)]
        g0 == Planet.Magnetic.gravShape_m[1]
        grav == [g0 EXCEPT !.v = [ix \in DOMAIN @ |->
                    IF ix[3] = p /\ ix[4] <= p
                    THEN CScale(radialScale[ix[1] + 1], g_chipq_m[<<ix[2], ix[4]>>])
                    ELSE @[ix]]]
    IN  [Planet EXCEPT
            !.Bulk.J2 = J2, !.Bulk.C20 = Some(C20),
            !.Bulk.C21 = Some(OrZero(B.C21)), !.Bulk.C22 = Some(OrZero(B.C22)),
            !.Bulk.S21 = Some(OrZero(B.S21)), !.Bulk.S22 = Some(OrZero(B.S22)),
            !.Magnetic.gravShape_m = Some(grav),
            !.Magnetic.zMeanAsym_km = Append(@, RInt(0)),
            !.Magnetic.iAsymBds = Append(@, ArgMinAbs(radialScale, RInt(1)) - 1)]


\* the lists [p for p in 1..pMax for _ in -p..p] and [q for p .. for q in -p..p]
RECURSIVE DegreeList(_, _)
DegreeList(lo, hi) == IF lo > hi THEN << >>
                      ELSE [k \in 1..(2 * lo + 1) |-> lo] \o DegreeList(lo + 1, hi)
RECURSIVE OrderList(_, _)
OrderList(lo, hi) == IF lo > hi THEN << >>
                     ELSE [k \in 1..(2 * lo + 1) |-> k - lo - 1] \o OrderList(lo + 1, hi)

\* a check of the first row that accepts every file
StartsAnywhere(f) == TRUE

\* a shape file's first row is p, q = 0, 0
StartsAt00(f) == f.pLin[1] = 0 /\ f.qLin[1] = 0

\* chi_pq of degree p of a shape file: rows iMin..iMax-1 (0-based) of the
\* file, negated (depth to radius) and converted from km to m
FileChipq(f, p) ==
    LET iMin == (p * (p + 1)) \div 2
        Cpq_m == [q \in 1..(p + 1) |-> RMul(RNeg(f.Cpq_km[iMin + q]), RInt(1000))]
        Spq_m == [q \in 1..(p + 1) |-> RMul(RNeg(f.Spq_km[iMin + q]), RInt(1000))]
    IN  GeodesyNorm2chipq(p, Cpq_m, Spq_m)

\* np.max(pLin[(Cpq_km != 0) | (Spq_km != 0)]); -1 when no row is non-zero
\* (np.max of an empty array raises ValueError)
pMaxNonzeroOf(f) ==
    LET rows == {i \in DOMAIN f.pLin : RNe(f.Cpq_km[i], RInt(0)) \/ RNe(f.Spq_km[i], RInt(0))}
    IN  IF rows = {} THEN -1 ELSE IMax({f.pLin[i] : i \in rows})

\* EOSlist.loaded with the contents of the given shape files added
LoadShapeFiles(loaded, keys) ==
    LET new == {ShapeLabel(keys[i]) : i \in DOMAIN keys}
    IN  [k \in DOMAIN loaded \cup new |->
            IF k \in DOMAIN loaded THEN loaded[k]
            ELSE LET key == CHOOSE kk \in Range(keys) : ShapeLabel(kk) = k
                     f == ShapeFile(key)
                 IN  <<f.pLin, f.qLin, f.Cpq_km, f.Spq_km>>]

\* the file contents as the code gets them: from the cache when the label is
\* there, from disk otherwise
ShapeContents(loaded, key) ==
    IF ShapeLabel(key) \in DOMAIN loaded
    THEN LET c == loaded[ShapeLabel(key)]
         IN  [pLin |-> c[1], qLin |-> c[2], Cpq_km |-> c[3], Spq_km |-> c[4]]
    ELSE ShapeFile(key)

\* a scale with the ratio of the two radii inverted
RadialScaleInverse(r, rAsym_m) == [i \in DOMAIN r |-> RDiv(rAsym_m, r[i])]

\* Line 741: radialScale = rSigChange_m / rAsym_m
RadialScale(r, rAsym_m) == [i \in DOMAIN r |-> RDiv(r[i], rAsym_m)]

\* The concentric branch of SetAsymShape (lines 725-765) for the file fName
AsymConcentric(Planet, loaded, fName) ==
    LET f == ShapeContents(loaded, fName)
        loaded1 == LoadShapeFiles(loaded, <<fName>>)
        P0 == [Planet EXCEPT !.Magnetic.pLin = Some(f.pLin), !.Magnetic.qLin = Some(f.qLin)]
        r == Planet.Magnetic.rSigChange_m
        rAsym_m == RSub(Planet.Bulk.R_m, RMul(f.Cpq_km[1], RInt(1000)))
        radialScale == RadialScale(r, rAsym_m)
        pMax == IF Planet.Magnetic.pMax = NoneInt \/ Planet.Magnetic.pMax > IMax(Range(f.pLin))
                THEN IMax(Range(f.pLin)) ELSE Planet.Magnetic.pMax
        nBds == Planet.Magnetic.nBds
        asymShape_m ==
            [n1 |-> nBds, D |-> pMax + 1,
             v |-> [ix \in Idx4(nBds, pMax + 1) |->
                      IF ix[3] >= 1 /\ ix[4] <= ix[3]
                      THEN CScale(radialScale[ix[1] + 1], FileChipq(f, ix[3])[<<ix[2], ix[4]>>])
                      ELSE IF pMax >= 1 /\ ix[2] = 0 /\ ix[3] = 0 /\ ix[4] = 0
                           THEN Cx(r[ix[1] + 1], RInt(0))
                           ELSE CZero]]
    IN  IF ~StartsAt00(f)
        THEN [Planet |-> P0, loaded |-> loaded1, raised |-> "RuntimeError"]
        ELSE [Planet |-> [P0 EXCEPT
                            !.Magnetic.pMax = pMax,
                            !.Magnetic.asymShape_m = Some(asymShape_m),
                            !.Magnetic.zMeanAsym_km = Append(@, f.Cpq_km[1]),
                            !.Magnetic.iAsymBds = Append(@, ArgMinAbs(r, rAsym_m) - 1)],
              loaded |-> loaded1, raised |-> "none"]

\* sum of a sequence of complex numbers
RECURSIVE CSum(_)
CSum(zs) == IF zs = << >> THEN CZero ELSE CAdd(zs[1], CSum(Tail(zs)))

\* a contribution that replaces the ones before it
Overwrite(zs) == IF zs = << >> THEN CZero ELSE zs[Len(zs)]

\* Lines 815-816: the contributions of the files that land on one boundary
\* are added to its coefficients one after the other
Accumulate(zs) == CSum(zs)

\* The per-boundary branch of SetAsymShape (lines 770-819) for the files found
AsymPerBoundary(Planet, loaded, shapeFiles) ==
    LET n == Len(shapeFiles)
        f == [i \in 1..n |-> ShapeContents(loaded, shapeFiles[i])]
        loaded1 == LoadShapeFiles(loaded, shapeFiles)
        pMaxEntries == [i \in 1..n |-> pMaxNonzeroOf(f[i])]
        emptyRows == \E i \in 1..n : pMaxEntries[i] = -1
        pMaxNonzero == IF n > 0 THEN IMax(Range(pMaxEntries)) ELSE 0
        pMax0 == IF n > 0 THEN Planet.Magnetic.pMax ELSE 0
        pMax == IF pMax0 = NoneInt \/ pMax0 > pMaxNonzero THEN pMaxNonzero ELSE pMax0
        r == Planet.Magnetic.rSigChange_m
        nBds == Planet.Magnetic.nBds
        \* the files handled before a malformed one stops the loop
        bad == {i \in 1..n : ~StartsAt00(f[i])}
        nDone == IF bad = {} THEN n ELSE (CHOOSE i \in bad : \A j \in bad : i <= j) - 1
        rAsym_m == [i \in 1..n |-> RSub(Planet.Bulk.R_m, RMul(f[i].Cpq_km[1], RInt(1000)))]
        iLayer == [i \in 1..n |-> ArgMinAbs(r, rAsym_m[i]) - 1]
        pMaxOf == [i \in 1..n |-> IF pMaxEntries[i] < pMax THEN pMaxEntries[i] ELSE pMax]
        asymShape_m ==
            [n1 |-> nBds, D |-> pMax + 1,
             v |-> [ix \in Idx4(nBds, pMax + 1) |->
                      IF ix[3] >= 1 /\ ix[4] <= ix[3]
                      THEN Accumulate([k \in 1..Len(SelectSeq([i \in 1..nDone |-> i],
                                      LAMBDA i : iLayer[i] = ix[1] /\ ix[3] <= pMaxOf[i])) |->
                                  LET i == SelectSeq([j \in 1..nDone |-> j],
                                               LAMBDA j : iLayer[j] = ix[1] /\ ix[3] <= pMaxOf[j])[k]
                                  IN  CScale(RDiv(rAsym_m[i], r[ix[1] + 1]),
                                             FileChipq(f[i], ix[3])[<<ix[2], ix[4]>>])])
                      ELSE IF ix[2] = 0 /\ ix[3] = 0 /\ ix[4] = 0
                              /\ \E i \in 1..nDone : iLayer[i] = ix[1]
                           THEN Cx(r[ix[1] + 1], RInt(0))
                           ELSE CZero]]
        \* one entry is appended per file and degree p = 1..pMax of that file
        added == {i \in 1..nDone : pMaxOf[i] >= 1}
        zNew == {RDiv(RSub(Planet.Bulk.R_m, r[iLayer[i] + 1]), RInt(1000)) : i \in added}
        iNew == {iLayer[i] : i \in added}
        P1 == [Planet EXCEPT
                 !.Magnetic.pMax = pMax,
                 !.Magnetic.asymShape_m = Some(asymShape_m),
                 !.Magnetic.zMeanAsym_km = RSortedSeq(Range(@) \cup zNew) ,
                 !.Magnetic.iAsymBds = SortedSeq(Range(@) \cup iNew)]
    IN  IF emptyRows
        THEN [Planet |-> Planet, loaded |-> loaded1, raised |-> "ValueError"]
        ELSE [Planet |-> P1, loaded |-> loaded1,
              raised |-> IF bad = {} THEN "none" ELSE "RuntimeError"]

\* Lines 709-720: the shape files of the run, those of the body when the run
\* has none of its own
ShapeFilesOf(Planet) ==
    IF Planet.name # Planet.bodyname /\ Len(FilesMatchingPattern(Planet.name)) = 0
    THEN FilesMatchingPattern(Planet.bodyname) ELSE FilesMatchingPattern(Planet.name)

\* Lines 721-722 and 766-768: no shape is read when there is no file, or when
\* the concentric file is asked for and missing
SkipAsym(Planet, Params) ==
    \/ Len(ShapeFilesOf(Planet)) = 0
    \/ Params.Sig.CONCENTRIC_ASYM /\ <<Planet.name, "">> \notin Range(ShapeFilesOf(Planet))

\* Lines 724-819: the branch that reads the shape files
AsymBranch(Planet, Params, loaded) ==
    IF Params.Sig.CONCENTRIC_ASYM
    THEN IF <<Planet.name, "">> \in Range(ShapeFilesOf(Planet))
         THEN AsymConcentric(Planet, loaded, <<Planet.name, "">>)
         ELSE [Planet |-> Planet, loaded |-> loaded, raised |-> "none"]
    ELSE AsymPerBoundary(Planet, loaded, ShapeFilesOf(Planet))

\* a default shape that leaves the requested degree cap as it is
AsymDefaultKeepCap(P1, SKIP_ASYM, CONCENTRIC_ASYM) ==
    IF SKIP_ASYM
    THEN [P1 EXCEPT !.Magnetic.asymShape_m = Some(Zeros4(P1.Magnetic.nBds, 3))]
    ELSE IF CONCENTRIC_ASYM
         THEN [P1 EXCEPT !.Magnetic.zMeanAsym_km = RSortedSeq(Range(@)),
                         !.Magnetic.iAsymBds = SortedSeq(Range(@))]
         ELSE P1

\* Lines 821-828: the gravity-only default shape, or the sorted boundary lists
AsymDefault(P1, SKIP_ASYM, CONCENTRIC_ASYM) ==
    IF SKIP_ASYM
    THEN [P1 EXCEPT !.Magnetic.pMax = 2,
                    !.Magnetic.asymShape_m = Some(Zeros4(P1.Magnetic.nBds, 3))]
    ELSE IF CONCENTRIC_ASYM
         THEN [P1 EXCEPT !.Magnetic.zMeanAsym_km = RSortedSeq(Range(@)),
                         !.Magnetic.iAsymBds = SortedSeq(Range(@))]
         ELSE P1

\* Lines 830-832: the lists of degrees and orders when no file set them
AsymLists(P2) ==
    IF P2.Magnetic.pLin = None
    THEN [P2 EXCEPT !.Magnetic.pLin = Some(DegreeList(1, P2.Magnetic.pMax)),
                    !.Magnetic.qLin = Some(OrderList(1, P2.Magnetic.pMax))]
    ELSE P2

\* Lines 834-837: the gravity shape, zero below degree 2
AsymGrav(P3) ==
    IF P3.Magnetic.pMax >= 2
    THEN SetGravShape([P3 EXCEPT !.Magnetic.gravShape_m =
             Some(Zeros4(P3.Magnetic.asymShape_m[1].n1, P3.Magnetic.asymShape_m[1].D))])
    ELSE [P3 EXCEPT !.Magnetic.gravShape_m =
             Some(Zeros4(P3.Magnetic.asymShape_m[1].n1, P3.Magnetic.asymShape_m[1].D))]

\* The end of SetAsymShape for the outcome br of the file branch
AsymFinish(br, SKIP_ASYM, CONCENTRIC_ASYM) ==
    IF br.raised # "none"
    THEN [Planet |-> br.Planet, loaded |-> br.loaded, raised |-> br.raised,
          warned |-> FALSE]
    ELSE [Planet |-> AsymGrav(AsymLists(AsymDefault(br.Planet, SKIP_ASYM, CONCENTRIC_ASYM))),
          loaded |-> br.loaded, raised |-> "none", warned |-> SKIP_ASYM]

\* SetAsymShape (lines 698-839): the Planet, EOSlist.loaded, the exception
\* raised ("none" when it returns) and whether the gravity-only warning is logged
SetAsymShape(Planet, Params, loaded) ==
    AsymFinish(AsymBranch(Planet, Params, loaded), SkipAsym(Planet, Params),
               Params.Sig.CONCENTRIC_ASYM)


(* ---------------------------- SetupInduction --------------------------- *)

\* One step of a handler's trace: a file read or write, or a call of an
\* external solver routine with the do_parallel flag it was given
Event(kind, what, par) == [kind |-> kind, what |-> what, par |-> par]

\* The label under which the coupling tensor is cached (line 497): the
\* f-string has no fields, so it is the empty string, held as no parts
XidLabel(nprmMax, pMax, nMax) == << >>

\* MoonMag's get_all_Xid(nprmMax, pMax, nMax, nLin, mLin): the coupling
\* tensor is pure data of the three integers, which stand for it here
LoadXid(nprmMax, pMax, nMax) == [nprmMax |-> nprmMax, pMax |-> pMax, nMax |-> nMax]

\* np.zeros_like(Benm_nT)
ZerosLike(Benm_nT) == IF Benm_nT = None THEN ZeroD
                      ELSE Zeros4(Benm_nT[1].n1, Benm_nT[1].D)

\* Line 400: no liquid layer, outside a sigma inductogram
Frozen(Planet, Params) ==
    Len(indsLiqOf(Planet)) = 0 /\ Params.Induct.inductOtype # "sigma"

\* a set-up that makes no frozen-ocean check
FrozenNoCheck(Planet, Params) == Planet

\* Lines 400-408: the frozen-ocean check; outside an inductogram it only logs
FrozenCheck(Planet, Params) ==
    IF Frozen(Planet, Params) /\ Params.DO_INDUCTOGRAM
    THEN [Planet EXCEPT !.Do.VALID = FALSE,
                        !.invalidReason = "Ocean completely frozen in inductogram"]
    ELSE Planet

\* Lines 487-492: pMax below 2 is raised to 2 unless low pMax is allowed
PMaxForced(Planet, Params) ==
    /\ Planet.Magnetic.pMax # NoneInt
    /\ Planet.Magnetic.pMax < 2
    /\ ~Params.Sig.ALLOW_LOW_PMAX

\* Lines 493-509: the coupling tensor for the outcome a of SetAsymShape,
\* from the cache when its label is there
SetupXid(a, Params, loaded, forced) ==
    LET reads == [k \in 1..Cardinality(DOMAIN a.loaded \ DOMAIN loaded) |->
                     Event("read", "shapeFile", FALSE)]
        P1 == [a.Planet EXCEPT !.Magnetic.nAsymBds = Len(a.Planet.Magnetic.zMeanAsym_km)]
        nprmMax == P1.Magnetic.nprmMax
        nMax == nprmMax + P1.Magnetic.pMax
        label == XidLabel(nprmMax, P1.Magnetic.pMax, nMax)
        hit == label \in DOMAIN a.loaded
        Xid == IF hit THEN a.loaded[label] ELSE LoadXid(nprmMax, P1.Magnetic.pMax, nMax)
        lg == (IF forced THEN {"pMaxForcedTo2"} ELSE {})
              \cup (IF a.warned THEN {"gravityOnly"} ELSE {})
    IN  IF a.raised # "none"
        THEN [Planet |-> a.Planet, Params |-> Params, loaded |-> a.loaded,
              raised |-> a.raised, log |-> lg, events |-> reads]
        ELSE [Planet |-> [P1 EXCEPT !.Magnetic.Xid = Some(Xid)],
              Params |-> Params,
              loaded |-> IF hit THEN a.loaded
                         ELSE [k \in DOMAIN a.loaded \cup {label} |->
                                  IF k = label THEN Xid ELSE a.loaded[k]],
              raised |-> "none", log |-> lg,
              events |-> reads \o (IF hit THEN << >>
                                   ELSE <<Event("pool", "LoadXid", FALSE)>>)]

\* Lines 480-512: the asymmetric shape and the coupling tensor
SetupAsym(Planet, Params, loaded) ==
    IF Params.CALC_ASYM
    THEN IF Planet.Magnetic.pMax = 0
         THEN [Planet |-> [Planet EXCEPT !.Magnetic.asymShape_m =
                               Some(Zeros4(Planet.Magnetic.nBds, 1))],
               Params |-> [Params EXCEPT !.CALC_ASYM = FALSE],
               loaded |-> loaded, raised |-> "none", log |-> {"pMaxIs0"},
               events |-> << >>]
         ELSE SetupXid(SetAsymShape(IF PMaxForced(Planet, Params)
                                    THEN [Planet EXCEPT !.Magnetic.pMax = 2] ELSE Planet,
                                    Params, loaded),
                       Params, loaded, PMaxForced(Planet, Params))
    ELSE [Planet |-> [Planet EXCEPT !.Magnetic.pMax = 0,
                         !.Magnetic.asymShape_m = Some(Zeros4(Planet.Magnetic.nBds, 1))],
          Params |-> Params, loaded |-> loaded, raised |-> "none", log |-> {},
          events |-> << >>]

\* Lines 515-524: the excitation spectrum g stored on the Planet, and the
\* initial Binm_nT
SetupExcWith(g, Planet, Params, loaded) ==
    LET P1 == IF Params.DO_INDUCTOGRAM THEN Planet
              ELSE [Planet EXCEPT !.Magnetic.Texc_hr = g.Texc_hr,
                                  !.Magnetic.omegaExc_radps = g.omegaExc_radps,
                                  !.Magnetic.Benm_nT = g.Benm_nT,
                                  !.Magnetic.B0_nT = g.B0_nT,
                                  !.Magnetic.nExc = IF g.Texc_hr = None THEN 1
                                                    ELSE Len(g.Texc_hr[1])]
        P2 == IF P1.Magnetic.Binm_nT = None
              THEN [P1 EXCEPT !.Magnetic.Binm_nT = Some(ZerosLike(P1.Magnetic.Benm_nT))]
              ELSE P1
    IN  [Planet |-> P2,
         loaded |-> IF Params.DO_INDUCTOGRAM THEN loaded ELSE g.loaded,
         log |-> IF ~Params.DO_INDUCTOGRAM /\ g.Benm_nT = None THEN {"noExcFile"} ELSE {},
         events |-> IF ~Params.DO_INDUCTOGRAM /\ g.loaded # loaded
                    THEN <<Event("read", "excFile", FALSE)>> ELSE << >>]

\* Lines 514-524: the excitation spectrum and the initial Binm_nT
SetupExc(Planet, Params, loaded) ==
    SetupExcWith(GetBexc(Planet.name, Planet.Magnetic.SCera, Planet.Magnetic.extModel,
                         Params.Induct.excSelectionCalc, Planet.Magnetic.nprmMax,
                         Planet.Magnetic.pMax, loaded),
                 Planet, Params, loaded)

\* Lines 526-531: the branch taken when the conductivity was not calculated
\* or the body is not valid
SetupSkipped(Planet) ==
    LET b == Planet.Magnetic.ionosBounds_m
        sg == Planet.Magnetic.sigmaIonosPedersen_Sm
    IN  [Planet EXCEPT
            !.Magnetic.ionosBounds_m =
                IF b = None \/ (\E i \in DOMAIN b : isnan(b[i])) THEN <<RInt(0)>> ELSE b,
            !.Magnetic.sigmaIonosPedersen_Sm =
                IF sg = None \/ (\E i \in DOMAIN sg : isnan(sg[i])) THEN <<RInt(0)>> ELSE sg]

\* Line 412: the layer arrays are left alone in a sigma inductogram
SkipLayers(Params) == Params.Induct.inductOtype = "sigma" /\ Params.DO_INDUCTOGRAM

\* Line 413: they are rebuilt from the profile in a new run
Rebuild(Params) == ~SkipLayers(Params) /\ (Params.CALC_NEW \/ ~Params.DO_INDUCTOGRAM)

\* Line 478: the number of boundaries
SetNBds(P) == [P EXCEPT !.Magnetic.nBds = Len(P.Magnetic.rSigChange_m)]

\* Lines 410-478: the layer arrays, scaled, and their number
SetupLayers(P0, Params) ==
    IF SkipLayers(Params) THEN SetNBds(P0)
    ELSE IF Rebuild(Params) THEN SetNBds(ApplyScaling(ReduceLayers(P0, Params)))
    ELSE SetNBds(ApplyScaling(P0))

\* The outcomes a of the shape set-up and e of the excitation set-up, joined
SetupJoin(a, e, rebuild) ==
    [Planet |-> e.Planet, Params |-> a.Params, loaded |-> e.loaded,
     raised |-> "none", log |-> a.log \cup e.log,
     events |-> a.events \o e.events, reduced |-> rebuild]

\* Lines 514-524 after the outcome a of the shape set-up
SetupAfterAsym(a, rebuild) ==
    IF a.raised # "none"
    THEN [Planet |-> a.Planet, Params |-> a.Params, loaded |-> a.loaded,
          raised |-> a.raised, log |-> a.log, events |-> a.events,
          reduced |-> rebuild]
    ELSE SetupJoin(a, SetupExc(a.Planet, a.Params, a.loaded), rebuild)

\* SetupInduction (lines 388-533).  reduced: the layer arrays were rebuilt
\* from the profile by this call.
SetupInduction(Planet, Params, loaded) ==
    IF Params.CALC_CONDUCT /\ FrozenCheck(Planet, Params).Do.VALID
    THEN SetupAfterAsym(SetupAsym(SetupLayers(FrozenCheck(Planet, Params), Params),
                                  Params, loaded),
                        Rebuild(Params))
    ELSE [Planet |-> SetupSkipped(FrozenCheck(Planet, Params)), Params |-> Params,
          loaded |-> loaded, raised |-> "none", log |-> {}, events |-> << >>,
          reduced |-> FALSE]


(* --------------------------- external solvers -------------------------- *)

\* MoonMag's AeList(rSigChange_m, sigmaLayers_Sm, omegaExc_radps, 1/R_m, nn):
\* the complex response amplitude of degree nn at each excitation frequency.
\* An external routine; it is stood for by a function of its arguments with
\* |Ae| < 1 and a rational modulus.
AeList(rSigChange_m, sigmaLayers_Sm, omegaExc_radps, R_m, nn) ==
    [i \in DOMAIN omegaExc_radps |->
        LET K == Len(sigmaLayers_Sm)
            T == RDiv(RInt(1), omegaExc_radps[i])
            mod == RDiv(RInt(K), RAdd(RInt(K + nn), T))
        IN  CScale(mod, Cx(Rat(3, 5), Rat(4, 5)))]

\* scipy's solve_ivp for dQ/dr (fn_dQdr) from rMin to the outermost
\* boundary: the final value y[0,-1].  The external integrator is stood for
\* by the value that agrees with the closed-form response,
\* Q(r_top) = n/(n+1) Ae (R_m/r_top)^(n+2).
ODEsolve(n, sigmaLayers_Sm, omega, rBds_m, R_m) ==
    LET Ae == AeList(rBds_m, sigmaLayers_Sm, <<omega>>, R_m, n)[1]
        rTop == rBds_m[Len(rBds_m)]
    IN  CScale(RMul(Rat(n, n + 1), RPow(RDiv(R_m, rTop), n + 2)), Ae)

\* SolveForQ (lines 364-368)
SolveForQ(n, sigmaLayers_Sm, omega, rBds_m, R_m) ==
    CScale(RPow(RDiv(rBds_m[Len(rBds_m)], R_m), n + 2),
           ODEsolve(n, sigmaLayers_Sm, omega, rBds_m, R_m))

\* MoonMag's BiAsym(...): the induced moments of an asymmetric body, of
\* shape nExc x 2 x (nMax+1) x (nMax+1).  An external routine; it is stood
\* for by the symmetric product plus a shape-dependent term, non-zero and
\* distinct over the valid (sign, n, m).
BiAsym(Planet, nMax) ==
    LET M == Planet.Magnetic
        Benm == M.Benm_nT[1]
        nExc == Len(M.omegaExc_radps[1])
        shape == M.asymShape_m[1]
        top == shape.n1 - 1
    IN  [n1 |-> nExc, D |-> nMax + 1,
         v |-> [ix \in Idx4(nExc, nMax + 1) |->
                  IF ix[3] >= 1 /\ ix[4] <= ix[3] /\ (ix[2] = 0 \/ ix[4] >= 1)
                  THEN LET Ae == AeList(M.rSigChange_m, M.sigmaLayers_Sm,
                                        M.omegaExc_radps[1], Planet.Bulk.R_m, ix[3])[ix[1] + 1]
                           be == IF ix \in DOMAIN Benm.v THEN Benm.v[ix] ELSE CZero
                           sh == IF <<top, ix[2], ix[3], ix[4]>> \in DOMAIN shape.v
                                 THEN CScale(RDiv(RInt(1), Planet.Bulk.R_m),
                                             shape.v[<<top, ix[2], ix[3], ix[4]>>])
                                 ELSE CZero
                       IN  CAdd(CScale(Rat(ix[3], ix[3] + 1), CMul(Ae, be)),
                                CAdd(sh, CInt(10 * ix[3] + ix[4], ix[2] + 1)))
                  ELSE CZero]]

\* Benm2absBexyz(Benm_nT) (lines 616-621): the magnitudes of the IAU x, y, z
\* components of the degree-1 excitation, x and y in units of 1/A1 and z in
\* units of 1/(sqrt(2) A1) with A1 = sqrt(2 pi / 3)
Benm2absBexyz(Benm) ==
    [x |-> [i \in 1..Benm.n1 |->
              CAbs(CScale(Rat(1, 2), CAdd(Benm.v[<<i - 1, 1, 1, 1>>],
                                          CScale(RInt(-1), Benm.v[<<i - 1, 0, 1, 1>>]))))],
     y |-> [i \in 1..Benm.n1 |->
              CAbs(CScale(Rat(1, 2), CAdd(Benm.v[<<i - 1, 1, 1, 1>>],
                                          Benm.v[<<i - 1, 0, 1, 1>>])))],
     z |-> [i \in 1..Benm.n1 |-> CAbs(Benm.v[<<i - 1, 0, 1, 0>>])]]


(* ------------------------- CalcInducedMoments -------------------------- *)

\* A 2-index array of shape n1 x n2 (0-based), e.g. Aen
Zeros2(n1, n2) == [n1 |-> n1, n2 |-> n2,
                   v |-> [ix \in (0..(n1 - 1)) \X (0..(n2 - 1)) |-> CZero]]

\* arr[:, n] = col for a 1-based sequence col
SetColumn(arr, n, col) ==
    [arr EXCEPT !.v = [ix \in DOMAIN @ |-> IF ix[2] = n THEN col[ix[1] + 1] ELSE @[ix]]]

\* the position t[iPeak, int(m < 0), n, m] as Python resolves it, or << >>
\* when it raises IndexError
At(t, iPeak, n, m) ==
    LET s == IF m < 0 THEN 1 ELSE 0
        pn == PyIdx(n, t.D)
        pm == PyIdx(m, t.D)
    IN  IF PyIdx(iPeak, t.n1) = -1 \/ pn = -1 \/ pm = -1 THEN << >>
        ELSE <<PyIdx(iPeak, t.n1), s, pn, pm>>

\* The Eckhardt1963 / numeric branch, degrees nprm..nprmMax (lines 115-121)
RECURSIVE NumericLoop(_, _)
NumericLoop(Planet, nprm) ==
    IF nprm > Planet.Magnetic.nprmMax THEN [Planet |-> Planet, raised |-> "none"]
    ELSE LET M == Planet.Magnetic
             omega == M.omegaExc_radps[1]
             Benm == M.Benm_nT[1]
             Binm == M.Binm_nT[1]
             Q == [i \in DOMAIN omega |->
                     SolveForQ(nprm, M.sigmaLayers_Sm, omega[i], M.rSigChange_m, Planet.Bulk.R_m)]
             Aen == SetColumn(M.Aen, nprm, [i \in DOMAIN Q |-> CScale(Rat(nprm + 1, nprm), Q[i])])
             P1 == [Planet EXCEPT !.Magnetic.Aen = Aen]
             rows == [i \in 0..(Binm.n1 - 1) |-> IF M.nExc = 1 THEN 0 ELSE i]
         IN  IF M.nExc > Benm.n1 \/ PyIdx(nprm, Benm.D) = -1 \/ PyIdx(nprm, Binm.D) = -1
             THEN [Planet |-> P1, raised |-> "IndexError"]
             ELSE IF Binm.D # Benm.D \/ (M.nExc # 1 /\ M.nExc # Binm.n1)
             THEN [Planet |-> P1, raised |-> "ValueError"]
             ELSE NumericLoop(
                    [P1 EXCEPT !.Magnetic.Binm_nT = Some([Binm EXCEPT !.v =
                        [ix \in DOMAIN @ |->
                            IF ix[3] = nprm
                            THEN CMul(Benm.v[<<rows[ix[1]], ix[2], ix[3], ix[4]>>],
                                      Aen.v[<<rows[ix[1]], nprm>>])
                            ELSE @[ix]]])],
                    nprm + 1)

\* the do_parallel flag handed to the external solvers
ParFlag(Params) ==
    Params.DO_PARALLEL /\ ~(Params.INDUCTOGRAM_IN_PROGRESS \/ Params.DO_EXPLOREOGRAM)

\* The positions the symmetric loop of the layer method writes (lines
\* 149-155): one for every pair of an entry n of nprmLin and an entry m of
\* mprmLin; << >> among them means the loop raises IndexError
SymWrites(Planet) ==
    LET M == Planet.Magnetic
    IN  {IF At(M.Benm_nT[1], i, n, m) = << >> THEN << >> ELSE At(M.Binm_nT[1], i, n, m) :
            i \in 0..(M.nExc - 1), n \in Range(M.nprmLin), m \in Range(M.mprmLin)}

\* The Srivastava1966 / layer branch (lines 126-155)
LayerBranch(Planet, Params) ==
    LET M == Planet.Magnetic
        omega == M.omegaExc_radps[1]
        Ae1 == AeList(M.rSigChange_m, M.sigmaLayers_Sm, omega, Planet.Bulk.R_m, 1)
        \* range(2, nprmMax): the degrees 2 .. nprmMax - 1
        Aen == [M.Aen EXCEPT !.v = [ix \in DOMAIN @ |->
                   IF ix[2] = 1 \/ (ix[2] >= 2 /\ ix[2] < M.nprmMax)
                   THEN AeList(M.rSigChange_m, M.sigmaLayers_Sm, omega,
                               Planet.Bulk.R_m, ix[2])[ix[1] + 1]
                   ELSE @[ix]]]
        P1 == [Planet EXCEPT !.Magnetic.Aen = Aen,
                             !.Magnetic.Amp = [i \in DOMAIN Ae1 |-> CAbs(Ae1[i])],
                             !.Magnetic.phase = [i \in DOMAIN Ae1 |-> NegAngle(CAngle(Ae1[i]))]]
        solves == [k \in 1..IMax({1, M.nprmMax - 1}) |-> Event("solve", "AeList", ParFlag(Params))]
        Benm == M.Benm_nT[1]
        Binm == M.Binm_nT[1]
        writes == SymWrites(Planet)
    IN  IF Params.CALC_ASYM
        THEN [Planet |-> [P1 EXCEPT !.Magnetic.Binm_nT =
                             Some(BiAsym(Planet, M.nprmMax + M.pMax))],
              raised |-> "none", written |-> {},
              events |-> Append(solves, Event("solve", "BiAsym", ParFlag(Params)))]
        ELSE IF << >> \in writes
        THEN [Planet |-> P1, raised |-> "IndexError", written |-> writes \ {<< >>},
              events |-> solves]
        ELSE [Planet |-> [P1 EXCEPT !.Magnetic.Binm_nT = Some([Binm EXCEPT !.v =
                             [ix \in DOMAIN @ |->
                                 IF ix \in writes
                                 THEN LET m == IF ix[2] = 0 THEN ix[4] ELSE ix[4] - Binm.D
                                      IN  CScale(Rat(ix[3], ix[3] + 1),
                                                 CMul(Benm.v[At(Benm, ix[1], ix[3], m)],
                                                      Aen.v[<<ix[1], ix[3]>>]))
                                 ELSE @[ix]]])],
              raised |-> "none", written |-> writes, events |-> solves]


\* the saved form of a 1-D array or list: savemat writes it as a 1 x N
\* matrix, of which the reload takes row [0]
MatRow(x) == <<x>>

\* savemat pads the strings of a list to a common length
StrLen(name) == IF name = "orbital" THEN 7 ELSE IF name = "synodic" THEN 7 ELSE 0
MatStrings(names) ==
    [k \in DOMAIN names |->
        [s |-> names[k], pad |-> IMax({StrLen(names[j]) : j \in DOMAIN names}) - StrLen(names[k])]]
\* np.char.strip of the reloaded strings
CharStrip(padded) == [k \in DOMAIN padded |-> padded[k].s]

\* The dictionary written by savemat (lines 176-196)
SaveDict(Planet) ==
    LET M == Planet.Magnetic
    IN  [Benm_nT |-> M.Benm_nT[1], Binm_nT |-> M.Binm_nT[1],
         omegaExc_radps |-> MatRow(M.omegaExc_radps[1]),
         BinmLin_nT |-> M.BinmLin_nT,
         nLin |-> MatRow(M.nLin), mLin |-> MatRow(M.mLin),
         nprmLin |-> MatRow(M.nprmLin), mprmLin |-> MatRow(M.mprmLin),
         Bi1x_nT |-> MatRow(M.Bi1xyz_nT.x), Bi1y_nT |-> MatRow(M.Bi1xyz_nT.y),
         Bi1z_nT |-> MatRow(M.Bi1xyz_nT.z),
         Aen |-> M.Aen,
         R_km |-> MatRow(MatRow(RDiv(Planet.Bulk.R_m, RInt(1000)))),
         asymShape_m |-> M.asymShape_m[1],
         ionosBounds_m |-> MatRow(M.ionosBounds_m),
         calcedExc |-> MatStrings(M.calcedExc[1])]

\* Lines 97-105: the index lists and the zeroed Aen and BinmLin_nT
MomentsInit(Planet) ==
    LET M0 == Planet.Magnetic
        nMax == M0.nprmMax + M0.pMax
    IN  [Planet EXCEPT
           !.Magnetic.nLin = DegreeList(1, nMax), !.Magnetic.mLin = OrderList(1, nMax),
           !.Magnetic.nprmLin = DegreeList(1, M0.nprmMax),
           !.Magnetic.mprmLin = OrderList(1, M0.nprmMax),
           !.Magnetic.Aen = Zeros2(M0.nExc, M0.nprmMax + 1),
           !.Magnetic.BinmLin_nT = [i \in 1..M0.nExc |->
                                       [k \in 1..Len(DegreeList(1, nMax)) |-> CZero]]]

\* a numeric branch that gives no notice of the asymmetry it leaves out
NumericBranchSilent(num, Params) ==
    [Planet |-> num.Planet, raised |-> num.raised, written |-> {},
     events |-> << >>, log |-> {}]

\* Lines 106-124: the numeric branch after its loop num, with Amp and phase
\* of the dipole response
NumericBranch(num, Params) ==
    LET nExc == num.Planet.Magnetic.nExc
        A1 == [i \in 1..nExc |-> num.Planet.Magnetic.Aen.v[<<i - 1, 1>>]]
    IN  [Planet |-> IF num.raised # "none" THEN num.Planet
                    ELSE [num.Planet EXCEPT
                            !.Magnetic.Amp = [i \in 1..nExc |-> CAbs(A1[i])],
                            !.Magnetic.phase = [i \in 1..nExc |-> NegAngle(CAngle(A1[i]))]],
         raised |-> num.raised, written |-> {},
         events |-> [k \in 1..num.Planet.Magnetic.nprmMax |->
                        Event("solve", "ODEsolve", FALSE)],
         log |-> IF Params.CALC_ASYM THEN {"asymIgnored"} ELSE {}]

\* a dispatch that treats every unrecognised name as the layer method
MethodBranchLenient(P0, Params) == LayerBranch(P0, Params) @@ [log |-> {}]

\* Lines 106-157: the branch chosen by Planet.Magnetic.inductMethod
MethodBranch(P0, Params) ==
    IF P0.Magnetic.inductMethod \in {"Eckhardt1963", "numeric"}
    THEN NumericBranch(NumericLoop(P0, 1), Params)
    ELSE IF P0.Magnetic.inductMethod \in {"Srivastava1966", "layer"}
    THEN LayerBranch(P0, Params) @@ [log |-> {}]
    ELSE [Planet |-> P0, raised |-> "ValueError", written |-> {},
          events |-> << >>, log |-> {}]

\* Lines 160-163: some Binm_nT[i, int(m<0), n, m] over nLin, mLin is out of range
LinBad(P1) ==
    LET M == P1.Magnetic
    IN  \E i \in 0..(M.nExc - 1), k \in 1..Len(M.nLin) :
            At(M.Binm_nT[1], i, M.nLin[k], M.mLin[k]) = << >>

\* Lines 160-175: BinmLin_nT, the dipole components and calcedExc
MomentsOutputs(P1, Params) ==
    LET M == P1.Magnetic
        Binm == M.Binm_nT[1]
        Be == Benm2absBexyz(M.Benm_nT[1])
        conjA == [i \in 1..M.nExc |-> CConj(M.Aen.v[<<i - 1, 1>>])]
        BeList == ExcitationsTexc_hr(P1.bodyname)
    IN  [P1 EXCEPT
           !.Magnetic.BinmLin_nT =
               [i \in 1..M.nExc |->
                   [k \in 1..Len(M.nLin) |-> Binm.v[At(Binm, i - 1, M.nLin[k], M.mLin[k])]]],
           !.Magnetic.Bi1xyz_nT =
               [x |-> [i \in 1..M.nExc |-> CScale(Be.x[i], conjA[i])],
                y |-> [i \in 1..M.nExc |-> CScale(Be.y[i], conjA[i])],
                z |-> [i \in 1..M.nExc |-> CScale(Be.z[i], conjA[i])]],
           !.Magnetic.calcedExc =
               Some(SelectSeq(ExcNames, LAMBDA k :
                   Params.Induct.excSelectionCalc[k] /\ BeList[k] # None))]

\* Lines 176-199: the save of the outputs P2 after the branch br
MomentsSave(P2, br, Params) ==
    IF Params.NO_SAVEFILE
    THEN [Planet |-> P2, raised |-> "none", written |-> br.written,
          events |-> br.events, log |-> br.log, saved |-> None]
    ELSE IF P2.Magnetic.ionosBounds_m = None
    THEN \* savemat cannot convert None
         [Planet |-> P2, raised |-> "TypeError", written |-> br.written,
          events |-> br.events, log |-> br.log, saved |-> None]
    ELSE [Planet |-> P2, raised |-> "none", written |-> br.written,
          events |-> Append(br.events, Event("write", "inducedMomentsFile", FALSE)),
          log |-> br.log, saved |-> Some(SaveDict(P2))]

\* Lines 159-199 after the branch br
MomentsFinish(br, Params) ==
    IF br.raised # "none"
    THEN br @@ [saved |-> None]
    ELSE IF LinBad(br.Planet)
    THEN [br EXCEPT !.raised = "IndexError"] @@ [saved |-> None]
    ELSE MomentsSave(MomentsOutputs(br.Planet, Params), br, Params)

\* CalcInducedMoments (lines 88-199): the Planet, the exception raised, the
\* positions of Binm_nT the symmetric loop assigned, the trace of solver
\* calls and file writes, and the saved dictionary (None when nothing is saved)
CalcInducedMoments(Planet, Params) ==
    MomentsFinish(MethodBranch(MomentsInit(Planet), Params), Params)


(* ---------------------------- ReloadMoments ---------------------------- *)

\* The rescaling loop of ReloadMoments (lines 239-243), degrees n..nTop
RECURSIVE RescaleLoop(_, _, _, _)
RescaleLoop(Planet, ratio, n, nTop) ==
    IF n > nTop THEN [Planet |-> Planet, raised |-> "none"]
    ELSE LET M == Planet.Magnetic
             scaling == RPow(ratio, n + 2)
             Binm == M.Binm_nT[1]
         IN  IF PyIdx(n, M.Aen.n2) = -1 \/ PyIdx(n, Binm.D) = -1
             THEN [Planet |-> Planet, raised |-> "IndexError"]
             ELSE RescaleLoop(
                    [Planet EXCEPT
                       !.Magnetic.Aen = [@ EXCEPT !.v = [ix \in DOMAIN @ |->
                           IF ix[2] = n THEN CScale(scaling, @[ix]) ELSE @[ix]]],
                       !.Magnetic.Binm_nT = Some([Binm EXCEPT !.v = [ix \in DOMAIN @ |->
                           IF ix[3] = n THEN CScale(scaling, @[ix]) ELSE @[ix]]]),
                       !.Magnetic.BinmLin_nT = [i \in DOMAIN @ |-> [k \in DOMAIN @[i] |->
                           IF M.nLin[k] = n THEN CScale(scaling, @[i][k]) ELSE @[i][k]]]],
                    ratio, n + 1, nTop)

\* the relative tolerance 1e-6 of the radius test, as the rational 1/10^6
ReloadTol == Rat(1, 1000000)

\* Lines 205-223: the fields taken from the dictionary reload read by loadmat
ReloadFields(Planet, reload) ==
    [Planet EXCEPT
       !.Magnetic.Benm_nT = Some(reload.Benm_nT),
       !.Magnetic.Binm_nT = Some(reload.Binm_nT),
       !.Magnetic.omegaExc_radps = Some(reload.omegaExc_radps[1]),
       !.Magnetic.BinmLin_nT = reload.BinmLin_nT,
       !.Magnetic.nLin = reload.nLin[1], !.Magnetic.mLin = reload.mLin[1],
       !.Magnetic.nprmLin = reload.nprmLin[1],
       !.Magnetic.mprmLin = reload.mprmLin[1],
       !.Magnetic.Bi1xyz_nT = [x |-> reload.Bi1x_nT[1], y |-> reload.Bi1y_nT[1],
                               z |-> reload.Bi1z_nT[1]],
       !.Magnetic.Aen = reload.Aen,
       !.Magnetic.asymShape_m = Some(reload.asymShape_m),
       !.Magnetic.ionosBounds_m = reload.ionosBounds_m[1],
       !.Magnetic.calcedExc = Some(CharStrip(reload.calcedExc)),
       !.Magnetic.nExc = Len(reload.omegaExc_radps[1])]

\* Lines 225-226: Amp and phase of the dipole response
ReloadAmp(P) ==
    [P EXCEPT
       !.Magnetic.Amp = [i \in 1..P.Magnetic.nExc |-> CAbs(P.Magnetic.Aen.v[<<i - 1, 1>>])],
       !.Magnetic.phase = [i \in 1..P.Magnetic.nExc |->
                             NegAngle(CAngle(P.Magnetic.Aen.v[<<i - 1, 1>>]))]]

\* a reload that stops after the fields of the file
ReloadWithoutAmp(Planet, reload) ==
    [Planet |-> ReloadFields(Planet, reload), raised |-> "none", log |-> {},
     rescaled |-> FALSE]

\* Lines 234-237: Amp and the dipole components scaled by dipScaling
DipoleScaled(P0, dipScaling) ==
    [P0 EXCEPT
       !.Magnetic.Amp = [i \in DOMAIN @ |-> RMul(@[i], dipScaling)],
       !.Magnetic.Bi1xyz_nT =
           [x |-> [i \in DOMAIN @.x |-> CScale(dipScaling, @.x[i])],
            y |-> [i \in DOMAIN @.y |-> CScale(dipScaling, @.y[i])],
            z |-> [i \in DOMAIN @.z |-> CScale(dipScaling, @.z[i])]]]

\* Lines 228-243: the rescaling of the reloaded Planet P0 for the radius
\* Rre_m of the file
ReloadRescale(P0, Rre_m) ==
    LET R_m == P0.Bulk.R_m
        ratio == RDiv(R_m, Rre_m)
    IN  IF RGt(RDiv(RSub(Rre_m, R_m), R_m), ReloadTol)
        THEN RescaleLoop(DipoleScaled(P0, RPow(ratio, 3)), ratio, 1,
                         IMax(Range(P0.Magnetic.nLin)))
             @@ [log |-> {"radiusDiffers"}, rescaled |-> TRUE]
        ELSE [Planet |-> P0, raised |-> "none", log |-> {}, rescaled |-> FALSE]

\* ReloadMoments (lines 202-245) for the dictionary reload read by loadmat
ReloadMoments(Planet, reload) ==
    ReloadRescale(ReloadAmp(ReloadFields(Planet, reload)),
                  RMul(reload.R_km[1][1], RInt(1000)))


(* ------------------ CalcAsymContours and ReloadAsym -------------------- *)

\* MoonMag's get_rsurf(pLin, qLin, shape[iLayer], R, theta, phi): the radius
\* of the deformed boundary over the map.  An external routine; the map is
\* stood for by one point, where the radius is R plus the real parts of the
\* zonal coefficients.
GetrSurf(shape, iLayer, R) ==
    LET ps == {p \in 1..(shape.D - 1) : <<iLayer, 0, p, 0>> \in DOMAIN shape.v}
        zonal == [k \in 1..Cardinality(ps) |-> shape.v[<<iLayer, 0, SortedSeq(ps)[k], 0>>]]
    IN  RAdd(R, CSum(zonal)[1])

\* One boundary of CalcAsymContours (lines 253-281): its plot type and its
\* deviation in km
AsymContour(Planet, i) ==
    LET M == Planet.Magnetic
        iLayer == M.iAsymBds[i]
        zMean_km == M.zMeanAsym_km[i]
        surf == (i = M.nAsymBds /\ M.ionosBounds_m = None) \/ REq(zMean_km, RInt(0))
        rSurf_m == IF surf
                   THEN GetrSurf(M.gravShape_m[1], iLayer, Planet.Bulk.R_m)
                   ELSE GetrSurf(M.asymShape_m[1], iLayer,
                                 RSub(Planet.Bulk.R_m, RMul(zMean_km, RInt(1000))))
        depth == RDiv(RSub(Planet.Bulk.R_m, rSurf_m), RInt(1000))
    IN  [asymPlotType |-> IF surf THEN "surf"
                          ELSE IF RLt(zMean_km, RInt(0)) THEN "ionos"
                          ELSE IF REq(zMean_km, Planet.zb_km) THEN "ice"
                          ELSE "depth",
         asymDevs_km |-> IF RLe(zMean_km, RInt(0)) THEN RMul(RInt(-1), depth) ELSE depth]

\* Lines 283-299: the contours c of the first n boundaries stored on the
\* Planet and saved
ContoursSave(Planet, Params, n, c) ==
    LET M == Planet.Magnetic
        P1 == [Planet EXCEPT
                 !.Magnetic.asymDevs_km =
                     [i \in 1..M.nAsymBds |-> IF i <= n THEN c[i].asymDevs_km ELSE RInt(0)],
                 !.Magnetic.asymPlotTypes = [i \in 1..n |-> c[i].asymPlotType],
                 !.Magnetic.asymPlotType = IF n = 0 THEN @ ELSE c[n].asymPlotType]
        ev == [i \in 1..n |-> Event("solve", "GetrSurf", ParFlag(Params))]
    IN  IF Params.NO_SAVEFILE
        THEN [Planet |-> P1, raised |-> "none", events |-> ev, saved |-> None]
        ELSE IF P1.Magnetic.asymPlotType = "none"
        THEN \* savemat cannot convert None
             [Planet |-> P1, raised |-> "TypeError", events |-> ev, saved |-> None]
        ELSE [Planet |-> P1, raised |-> "none",
              events |-> Append(ev, Event("write", "asymFile", FALSE)),
              saved |-> Some([nAsymBds |-> MatRow(<<M.nAsymBds>>),
                              iAsymBds |-> MatRow(M.iAsymBds),
                              zMeanAsym_km |-> MatRow(M.zMeanAsym_km),
                              asymShape_m |-> M.asymShape_m[1],
                              gravShape_m |-> M.gravShape_m[1],
                              asymDevs_km |-> P1.Magnetic.asymDevs_km,
                              asymPlotType |-> MatRow(P1.Magnetic.asymPlotType)])]

\* the number of boundaries the loop of lines 253-281 handles
NumContours(M) == IF Len(M.iAsymBds) < M.nAsymBds THEN Len(M.iAsymBds) ELSE M.nAsymBds

\* CalcAsymContours (lines 248-299)
CalcAsymContours(Planet, Params) ==
    IF ~Params.CALC_ASYM
    THEN [Planet |-> Planet, raised |-> "none", events |-> << >>, saved |-> None]
    ELSE IF Planet.Magnetic.nAsymBds = NoneInt
    THEN \* np.zeros((None, ...))
         [Planet |-> Planet, raised |-> "TypeError", events |-> << >>, saved |-> None]
    ELSE ContoursSave(Planet, Params, NumContours(Planet.Magnetic),
                      [i \in 1..NumContours(Planet.Magnetic) |-> AsymContour(Planet, i)])

\* ReloadAsym (lines 302-361) for the files on disk; the map grid and its
\* longitude adjustment are outside the model
ReloadAsym(Planet, Params, files) ==
    LET asymFile == Params.DataFiles.asymFile
    IN  IF asymFile \notin DOMAIN files
        THEN [Planet |-> Planet, Params |-> [Params EXCEPT !.CALC_ASYM = FALSE],
              log |-> {"noAsymFile"}, events |-> << >>]
        ELSE LET reload == files[asymFile]
             IN  [Planet |-> [Planet EXCEPT
                                !.Magnetic.nAsymBds = reload.nAsymBds[1][1],
                                !.Magnetic.iAsymBds = reload.iAsymBds[1],
                                !.Magnetic.zMeanAsym_km = reload.zMeanAsym_km[1],
                                !.Magnetic.asymShape_m = Some(reload.asymShape_m),
                                !.Magnetic.gravShape_m = Some(reload.gravShape_m),
                                !.Magnetic.asymDevs_km = reload.asymDevs_km,
                                !.Magnetic.asymPlotType = reload.asymPlotType[1]],
                  Params |-> Params, log |-> {},
                  events |-> <<Event("read", "asymFile", FALSE)>>]

(* --------------------------- FourierSpectrum --------------------------- *)

\* The bodies with a Fourier-spectrum excitation file on disk, and the
\* periods (hr) and dipole x component it tabulates
FTFileBodies == {"Europa"}
FTFile == [T_h |-> <<RInt(11), RInt(85)>>, B1x_nT |-> <<CInt(1, 0), CInt(0, 2)>>]

\* FourierSpectrum with LoadFTdata and ReloadSpectrum (lines 853-950).  The
\* response is evaluated at the tabulated periods themselves; the reduced
\* period grid and the interpolation back from it are outside the model.
FourierSpectrum(Planet, Params, files) ==
    LET M == Planet.Magnetic
        unsaved == [saved |-> None]
    IN  IF Planet.bodyname \notin FTFileBodies
        THEN [Planet |-> [Planet EXCEPT !.Magnetic.FT_LOADED = FALSE],
              log |-> {"noFTfile"}, events |-> << >>] @@ unsaved
        ELSE LET P0 == [Planet EXCEPT !.Magnetic.FT_LOADED = TRUE,
                                      !.Magnetic.TexcFT_hr = FTFile.T_h]
                 rd == <<Event("read", "BeFTdata", FALSE)>>
             IN  IF Params.CALC_NEW_INDUCT
                 THEN LET Ae1FT == AeList(M.rSigChange_m, M.sigmaLayers_Sm,
                                          [k \in DOMAIN FTFile.T_h |-> RDiv(RInt(1), FTFile.T_h[k])],
                                          Planet.Bulk.R_m, 1)
                          Bi1x == [k \in DOMAIN Ae1FT |-> CMul(FTFile.B1x_nT[k], Ae1FT[k])]
                          P1 == [P0 EXCEPT !.Magnetic.Ae1FT = Some(Ae1FT),
                                           !.Magnetic.Bi1xFT_nT = Some(Bi1x)]
                          ev == Append(rd, Event("solve", "AeList", Params.DO_PARALLEL))
                      IN  IF Params.NO_SAVEFILE
                          THEN [Planet |-> P1, log |-> {}, events |-> ev] @@ unsaved
                          ELSE [Planet |-> P1, log |-> {},
                                events |-> Append(ev, Event("write", "FTdata", FALSE)),
                                saved |-> Some([Ae1FT |-> MatRow(Ae1FT),
                                                Bi1x_nT |-> MatRow(Bi1x)])]
                 ELSE IF Params.DataFiles.FTdata \in DOMAIN files
                 THEN [Planet |-> [P0 EXCEPT
                                     !.Magnetic.Ae1FT = Some(files[Params.DataFiles.FTdata].Ae1FT[1]),
                                     !.Magnetic.Bi1xFT_nT = Some(files[Params.DataFiles.FTdata].Bi1x_nT[1])],
                       log |-> {}, events |-> Append(rd, Event("read", "FTdata", FALSE))] @@ unsaved
                 ELSE [Planet |-> [P0 EXCEPT !.Magnetic.FT_LOADED = FALSE],
                       log |-> {"noFTdata"}, events |-> rd] @@ unsaved


(* -------------------------- MagneticInduction -------------------------- *)

\* files with the dictionary d written at path (unchanged when d is None)
WriteFile(files, path, d) ==
    IF d = None THEN files
    ELSE [k \in DOMAIN files \cup {path} |-> IF k = path THEN d[1] ELSE files[k]]

\* The outcome of MagneticInduction before any of its stages has run
StageBase(Planet, Params, loaded, files) ==
    [Planet |-> Planet, Params |-> Params, loaded |-> loaded, files |-> files,
     raised |-> "none", log |-> {}, events |-> << >>, SKIP |-> FALSE,
     moments |-> "none", written |-> {}, reduced |-> FALSE]

\* Line 29: the outcome su of SetupInduction taken over
AfterSetup(base, su) ==
    [base EXCEPT !.Planet = su.Planet, !.Params = su.Params, !.loaded = su.loaded,
                 !.raised = su.raised, !.log = su.log, !.events = su.events,
                 !.reduced = su.reduced]

\* Line 35: the outcome c of CalcInducedMoments taken over
AfterCalc(st, c) ==
    [st EXCEPT !.Planet = c.Planet, !.raised = c.raised,
               !.log = @ \cup c.log, !.events = @ \o c.events,
               !.files = WriteFile(@, st.Params.DataFiles.inducedMomentsFile, c.saved),
               !.moments = IF c.raised = "none" THEN "calced" ELSE "none",
               !.written = c.written]

\* Lines 33-45: the moments are calculated when there is an excitation
\* spectrum and the body is valid
CalcOrClear(st) ==
    IF st.raised # "none" THEN st
    ELSE IF st.Planet.Magnetic.Benm_nT # None /\ st.Planet.Do.VALID
    THEN AfterCalc(st, CalcInducedMoments(st.Planet, st.Params))
    ELSE [st EXCEPT !.Planet.Magnetic.Binm_nT = None,
                    !.Planet.Magnetic.calcedExc = Some(<< >>)]

\* Line 55: the outcome r of ReloadMoments taken over
AfterReload(base, r) ==
    [base EXCEPT !.Planet = r.Planet, !.raised = r.raised, !.log = r.log,
                 !.events = <<Event("read", "inducedMomentsFile", FALSE)>>,
                 !.moments = IF r.raised = "none" THEN "reloaded" ELSE "none"]

\* Lines 27-62: the induced moments are computed, reloaded, or skipped.
\* moments is "calced", "reloaded" or "none".
InductionStage(Planet, Params, loaded, files) ==
    IF Planet.Do.VALID /\ Params.CALC_NEW_INDUCT
    THEN CalcOrClear(AfterSetup(StageBase(Planet, Params, loaded, files),
                                SetupInduction(Planet, Params, loaded)))
    ELSE IF Planet.Do.VALID
    THEN IF Params.DataFiles.inducedMomentsFile \in DOMAIN files
         THEN AfterReload(StageBase(Planet, Params, loaded, files),
                          ReloadMoments(Planet, files[Params.DataFiles.inducedMomentsFile]))
         ELSE [StageBase(Planet, Params, loaded, files) EXCEPT
                  !.SKIP = TRUE, !.log = {"noMomentsFile"}]
    ELSE [StageBase(Planet, Params, loaded, files) EXCEPT !.SKIP = TRUE]

\* Lines 64-69: the placeholders of a skipped run
SkipPlaceholders(Planet) ==
    [Planet EXCEPT
        !.Magnetic.ionosBounds_m = IF @ = None THEN <<NaN>> ELSE @,
        !.Magnetic.sigmaIonosPedersen_Sm = IF @ = None THEN <<NaN>> ELSE @,
        !.Magnetic.calcedExc = Some(<< >>)]

\* Line 73: the outcome f of FourierSpectrum taken over
WithSpectrum(st, f) ==
    [st EXCEPT !.Planet = f.Planet, !.log = @ \cup f.log, !.events = @ \o f.events,
               !.files = WriteFile(@, st.Params.DataFiles.FTdata, f.saved)]

\* Lines 72-73
SpectrumStage(st) ==
    IF st.Params.PLOT_MAG_SPECTRUM
    THEN WithSpectrum(st, FourierSpectrum(st.Planet, st.Params, st.files))
    ELSE st

\* Line 78: the outcome su of the second SetupInduction taken over
WithSetup(st, su) ==
    [st EXCEPT !.Planet = su.Planet, !.Params = su.Params, !.loaded = su.loaded,
               !.raised = su.raised, !.log = @ \cup su.log, !.events = @ \o su.events,
               !.reduced = su.reduced]

\* Lines 77-78: the shape is set up here when the moments were reloaded
AsymSetupStage(st) ==
    IF st.Params.CALC_NEW_INDUCT THEN st
    ELSE WithSetup(st, SetupInduction(st.Planet, st.Params, st.loaded))

\* Line 79: the outcome c of CalcAsymContours taken over
WithContours(st, c) ==
    [st EXCEPT !.Planet = c.Planet, !.raised = c.raised, !.events = @ \o c.events,
               !.files = WriteFile(@, st.Params.DataFiles.asymFile, c.saved)]

\* Line 79
ContourStage(st) ==
    IF st.raised # "none" THEN st
    ELSE WithContours(st, CalcAsymContours(st.Planet, st.Params))

\* Line 81: the outcome r of ReloadAsym taken over
WithAsym(st, r) ==
    [st EXCEPT !.Planet = r.Planet, !.Params = r.Params,
               !.log = @ \cup r.log, !.events = @ \o r.events]

\* Lines 75-81: the asymmetric contours, calculated or reloaded
AsymStage(st) ==
    IF ~st.Params.CALC_ASYM THEN st
    ELSE IF st.Params.CALC_NEW_ASYM THEN ContourStage(AsymSetupStage(st))
    ELSE WithAsym(st, ReloadAsym(st.Planet, st.Params, st.files))

\* Lines 70-81: the Fourier spectrum and the asymmetric contours
PlotStage(st) ==
    IF st.Params.DO_INDUCTOGRAM \/ st.Params.DO_EXPLOREOGRAM THEN st
    ELSE AsymStage(SpectrumStage(st))

\* Lines 64-81 after the induction stage st
AfterInduction(st) ==
    IF st.raised # "none" THEN st
    ELSE IF st.SKIP THEN [st EXCEPT !.Planet = SkipPlaceholders(st.Planet)]
    ELSE PlotStage(st)

\* MagneticInduction (lines 22-85)
MagneticInduction(Planet, Params, loaded, files) ==
    AfterInduction(InductionStage(Planet, Params, loaded, files))


(* ------------------ construction of Planet and Params ------------------ *)

\* MagneticSubstruct(): every field unset
MagneticSubstruct ==
    [inductMethod |-> "Srivastava1966", SCera |-> "none", extModel |-> "none",
     ionosBounds_m |-> None, sigmaIonosPedersen_Sm |-> None, sigmaScaling |-> None,
     sigmaLayers_Sm |-> None, rSigChange_m |-> None, nBds |-> NoneInt,
     nprmMax |-> 1, pMax |-> NoneInt, pLin |-> None, qLin |-> None,
     asymShape_m |-> None, gravShape_m |-> None, zMeanAsym_km |-> << >>,
     iAsymBds |-> << >>, nAsymBds |-> NoneInt, Xid |-> None,
     Texc_hr |-> None, omegaExc_radps |-> None, Benm_nT |-> None, B0_nT |-> None,
     nExc |-> NoneInt, Binm_nT |-> None, Aen |-> None, Amp |-> None, phase |-> None,
     BinmLin_nT |-> None, Bi1xyz_nT |-> None, nLin |-> None, mLin |-> None,
     nprmLin |-> None, mprmLin |-> None, calcedExc |-> None,
     asymDevs_km |-> None, asymPlotType |-> "none", asymPlotTypes |-> << >>,
     FT_LOADED |-> FALSE, TexcFT_hr |-> None, Ae1FT |-> None, Bi1xFT_nT |-> None]

\* PlanetStruct(name)
PlanetStruct(name) ==
    [name |-> name, bodyname |-> name, invalidReason |-> "none",
     phase |-> None, r_m |-> None, sigma_Sm |-> None,
     zb_km |-> NaN, D_km |-> NaN,
     Do |-> [VALID |-> TRUE, NO_H2O |-> FALSE],
     Bulk |-> [R_m |-> NaN, Cmeasured |-> NaN, J2 |-> None, C20 |-> None, C21 |-> None,
               C22 |-> None, S21 |-> None, S22 |-> None],
     Magnetic |-> MagneticSubstruct]

\* ParamsStruct with the configuration flags this module reads
ParamsStruct ==
    [CALC_NEW |-> TRUE, CALC_NEW_INDUCT |-> TRUE, CALC_CONDUCT |-> TRUE,
     CALC_ASYM |-> FALSE, CALC_NEW_ASYM |-> TRUE,
     DO_INDUCTOGRAM |-> FALSE, DO_EXPLOREOGRAM |-> FALSE, INDUCTOGRAM_IN_PROGRESS |-> FALSE,
     DO_PARALLEL |-> FALSE, NO_SAVEFILE |-> FALSE, PLOT_MAG_SPECTRUM |-> FALSE,
     Induct |-> [inductOtype |-> "Tb", nIntL |-> 2,
                 excSelectionCalc |-> [orbital |-> TRUE, synodic |-> TRUE]],
     Sig |-> [REDUCED_INDUCT |-> TRUE, CONCENTRIC_ASYM |-> FALSE, ALLOW_LOW_PMAX |-> FALSE],
     DataFiles |-> [inducedMomentsFile |-> <<"inducedMoments", "none">>,
                    asymFile |-> <<"asym", "none">>, FTdata |-> <<"FTdata", "none">>]]

\* A layered interior as the layer-propagation stage leaves it: per layer
\* from the surface down, the phase, the conductivity and the thickness in
\* km; r_m runs from the surface radius down to 0.  zb_km is the depth of
\* the top of the uppermost liquid layer and D_km the thickness from there
\* to the bottom of the lowermost one.
RECURSIVE SumTo(_, _)
SumTo(dz, k) == IF k = 0 THEN 0 ELSE dz[k] + SumTo(dz, k - 1)

WithProfile(Planet, phase, sigma_Sm, dz_km) ==
    LET N == Len(phase)
        Rkm == SumTo(dz_km, N)
        liq == {i \in 1..N : phase[i] = 0}
        a == CHOOSE i \in liq : \A j \in liq : i <= j
        b == CHOOSE i \in liq : \A j \in liq : j <= i
    IN  [Planet EXCEPT
           !.phase = phase, !.sigma_Sm = sigma_Sm,
           !.r_m = [k \in 1..(N + 1) |-> RInt(1000 * (Rkm - SumTo(dz_km, k - 1)))],
           !.Bulk.R_m = RInt(1000 * Rkm),
           !.zb_km = IF liq = {} THEN RInt(Rkm) ELSE RInt(SumTo(dz_km, a - 1)),
           !.D_km = IF liq = {} THEN RInt(0) ELSE RInt(SumTo(dz_km, b) - SumTo(dz_km, a - 1))]

\* the output file names of a run, from the profile's save label
WithLabel(Params, label) ==
    [Params EXCEPT !.DataFiles = [inducedMomentsFile |-> <<"inducedMoments", label>>,
                                  asymFile |-> <<"asym", label>>,
                                  FTdata |-> <<"FTdata", label>>]]


(* ------------------------------ the runs ------------------------------- *)

\* One configured run: the inputs from which a Planet and the Params are
\* built before the induction stage is entered
BaseCfg ==
    [name |-> "Europa", bodyname |-> "Europa", label |-> "Europa",
     phase |-> <<1, 0, 1>>, sigma_Sm |-> <<RInt(5), RInt(40), RInt(20)>>,
     dz_km |-> <<1, 1, 1>>,
     ionosBounds_m |-> None, sigmaIonosPedersen_Sm |-> None, sigmaScaling |-> None,
     inductMethod |-> "Srivastava1966", SCera |-> "Galileo", extModel |-> "JRM09",
     nprmMax |-> 1, pMax |-> NoneInt, VALID |-> TRUE, NO_H2O |-> FALSE, preset |-> FALSE,
     Params |-> ParamsStruct]

\* the layer arrays of pre copied onto P
WithLayersOf(P, pre) ==
    [P EXCEPT !.Magnetic.sigmaLayers_Sm = pre.Magnetic.sigmaLayers_Sm,
              !.Magnetic.rSigChange_m = pre.Magnetic.rSigChange_m]

\* The Params of the run cfg
ConfigureParams(cfg) == WithLabel(cfg.Params, cfg.label)

\* The Planet of the run cfg before its layer arrays are set
ConfigureFields(cfg) ==
    [WithProfile(PlanetStruct(cfg.name), cfg.phase, cfg.sigma_Sm, cfg.dz_km) EXCEPT
        !.bodyname = cfg.bodyname,
        !.Do.VALID = cfg.VALID, !.Do.NO_H2O = cfg.NO_H2O,
        !.Bulk.Cmeasured = Rat(1, 3),
        !.Bulk.J2 = Some(Rat(1, 100)), !.Bulk.C22 = Some(Rat(1, 200)),
        !.Magnetic.inductMethod = cfg.inductMethod,
        !.Magnetic.SCera = cfg.SCera, !.Magnetic.extModel = cfg.extModel,
        !.Magnetic.ionosBounds_m = cfg.ionosBounds_m,
        !.Magnetic.sigmaIonosPedersen_Sm = cfg.sigmaIonosPedersen_Sm,
        !.Magnetic.sigmaScaling = cfg.sigmaScaling,
        !.Magnetic.nprmMax = cfg.nprmMax, !.Magnetic.pMax = cfg.pMax]

\* an inductogram point arrives with its layer arrays already set
PresetLayers(P, Params, preset) ==
    IF preset THEN WithLayersOf(P, ReduceLayers(P, Params)) ELSE P

\* The Planet of the run cfg
ConfigurePlanet(cfg) ==
    PresetLayers(ConfigureFields(cfg), ConfigureParams(cfg), cfg.preset)

\* the bounds of the explored inputs
MaxLayers == 3
MaxCalls == 2
MaxRuns == 2

\* conductivities of the input layers, in units of 1e-9 S/m
SigmaValues == {NaN, RInt(5), RInt(20)}

\* the ionospheres of the inputs: unset, one layer, and the special case of
\* two bounds with one conductivity
IonosChoices ==
    { [b |-> None, s |-> None],
      [b |-> <<RInt(500)>>, s |-> <<RInt(20)>>],
      [b |-> <<RInt(500), RInt(1000)>>, s |-> <<RInt(40)>>] }

\* every layered interior of up to MaxLayers unit layers with every choice
\* of ionosphere and scaling, without the ocean reduction (nIntL = 0 here)
\* and with it to 1 or 2 layers
ReduceCfgs ==
    UNION { { [BaseCfg EXCEPT
                 !.phase = ph, !.sigma_Sm = sg, !.dz_km = [k \in 1..N |-> 1],
                 !.ionosBounds_m = io.b, !.sigmaIonosPedersen_Sm = io.s,
                 !.sigmaScaling = sc,
                 !.Params.Sig.REDUCED_INDUCT = nIntL > 0,
                 !.Params.Induct.nIntL = IF nIntL > 0 THEN nIntL ELSE 2] :
              ph \in [1..N -> {0, 1}], sg \in [1..N -> SigmaValues],
              io \in IonosChoices, sc \in {None, Some(RInt(2))},
              nIntL \in 0..2 } : N \in 1..MaxLayers }

\* The runs in which the moments are computed: both methods, asymmetry off
\* or on with pMax = 2, nprmMax 1 or 2
MomentsCfgs ==
    { [BaseCfg EXCEPT
         !.inductMethod = method, !.nprmMax = nprmMax,
         !.pMax = IF asym THEN 2 ELSE NoneInt, !.Params.CALC_ASYM = asym] :
        method \in {"Srivastava1966", "Eckhardt1963"}, asym \in BOOLEAN, nprmMax \in 1..2 }

\* The runs whose moments are saved and reloaded: one interior at two radii,
\* both methods, asymmetry off or on
ReloadCfgs ==
    { [BaseCfg EXCEPT
         !.dz_km = [k \in 1..3 |-> dz], !.inductMethod = method,
         !.pMax = IF asym THEN 2 ELSE NoneInt, !.Params.CALC_ASYM = asym] :
        dz \in {1, 2}, method \in {"Srivastava1966", "Eckhardt1963"}, asym \in BOOLEAN }

\* The runs that share the process-wide cache: nprmMax 1 or 2, asymmetry off
\* or on with pMax 2 or 3, an era with an excitation file and one without
CacheCfgs ==
    { [BaseCfg EXCEPT
         !.nprmMax = nprmMax, !.pMax = pMax, !.Params.CALC_ASYM = pMax # NoneInt,
         !.SCera = era] :
        nprmMax \in 1..2, pMax \in {NoneInt, 2, 3}, era \in {"Galileo", "Juno"} }

\* The runs of the whole stage: moments computed or reloaded, and the runs
\* that cannot compute them: a body invalid on entry, a conductivity not
\* calculated, a frozen body in an inductogram, a sigma inductogram point,
\* an era without an excitation file, two unknown method names
InductCfgs ==
    { [BaseCfg EXCEPT !.Params.CALC_NEW_INDUCT = new,
                      !.ionosBounds_m = io.b, !.sigmaIonosPedersen_Sm = io.s] :
        new \in BOOLEAN, io \in {[b |-> None, s |-> None],
                                 [b |-> <<RInt(500)>>, s |-> <<RInt(20)>>]} }
    \cup
    { [BaseCfg EXCEPT !.VALID = FALSE],
      [BaseCfg EXCEPT !.Params.CALC_CONDUCT = FALSE],
      [BaseCfg EXCEPT !.phase = <<1, 1, 1>>, !.Params.DO_INDUCTOGRAM = TRUE,
                      !.Params.INDUCTOGRAM_IN_PROGRESS = TRUE],
      [BaseCfg EXCEPT !.preset = TRUE, !.Params.DO_INDUCTOGRAM = TRUE,
                      !.Params.INDUCTOGRAM_IN_PROGRESS = TRUE,
                      !.Params.Induct.inductOtype = "sigma"],
      [BaseCfg EXCEPT !.SCera = "Juno"],
      [BaseCfg EXCEPT !.inductMethod = "FDTD"],
      [BaseCfg EXCEPT !.inductMethod = "srivastava1966"] }

\* The runs of the frozen-ocean check: every arrangement of ice and liquid
\* layers, inside and outside an inductogram, with the layer arrays derived
\* from the profile or assigned directly, the ocean reduction on or off, a
\* body with water or without
FrozenCfgs ==
    UNION { { [BaseCfg EXCEPT
                 !.phase = ph, !.sigma_Sm = [k \in 1..N |-> RInt(20 * k)],
                 !.dz_km = [k \in 1..N |-> 1],
                 !.NO_H2O = dry, !.preset = (ind /\ otype = "sigma"),
                 !.Params.DO_INDUCTOGRAM = ind,
                 !.Params.INDUCTOGRAM_IN_PROGRESS = ind,
                 !.Params.Induct.inductOtype = otype,
                 !.Params.Sig.REDUCED_INDUCT = red] :
              ph \in [1..N -> {0, 1}], dry \in BOOLEAN, ind \in BOOLEAN,
              otype \in {"Tb", "sigma"}, red \in BOOLEAN } : N \in 1..MaxLayers }

\* a run named name of the body bodyname with asymmetry requested
ShapeCfg(name, bodyname, conc, pMax, low) ==
    [BaseCfg EXCEPT !.name = name, !.bodyname = bodyname, !.label = name,
                    !.pMax = pMax, !.Params.CALC_ASYM = TRUE,
                    !.Params.Sig.CONCENTRIC_ASYM = conc,
                    !.Params.Sig.ALLOW_LOW_PMAX = low]

\* The runs that set the asymmetric shape: bodies with well-formed files,
\* with a malformed one, with none, and a run named otherwise than its body;
\* concentric or per boundary; every requested degree cap up to 3 or none;
\* low caps allowed or not
ShapeCfgs ==
    { ShapeCfg(nm[1], nm[2], conc, pMax, low) :
        nm \in {<<"Europa", "Europa">>, <<"Enceladus", "Enceladus">>,
                <<"Callisto", "Callisto">>, <<"Ganymede", "Ganymede">>,
                <<"Titan", "Titan">>, <<"EuropaThick", "Europa">>},
        conc \in BOOLEAN, pMax \in {NoneInt, 0, 1, 2, 3}, low \in BOOLEAN }
    \cup
    \* bodies of one or two layers, where both files of Europa land on one boundary
    { [ShapeCfg("Europa", "Europa", FALSE, pMax, FALSE) EXCEPT
          !.phase = [k \in DOMAIN dz |-> 1],
          !.sigma_Sm = [k \in DOMAIN dz |-> RInt(20 * k)],
          !.dz_km = dz] :
        pMax \in {NoneInt, 2, 3}, dz \in {<<1>>, <<1, 1>>, <<5, 1>>, <<1, 5>>} }

\* The runs that share the cache of loaded shape files, some malformed
ShapeCacheCfgs ==
    { ShapeCfg(nm, nm, conc, pMax, FALSE) :
        nm \in {"Europa", "Callisto", "Ganymede"}, conc \in BOOLEAN,
        pMax \in {NoneInt, 1} }

\* The runs of the whole stage under every setting of the flags that steer
\* the worker pool and the optional stages: parallel execution, the three
\* sweep flags, the Fourier spectrum, the asymmetric contours
SweepCfgs ==
    { [BaseCfg EXCEPT !.pMax = IF asym THEN 2 ELSE NoneInt,
                      !.Params.CALC_ASYM = asym,
                      !.Params.PLOT_MAG_SPECTRUM = ft,
                      !.Params.DO_PARALLEL = par,
                      !.Params.DO_INDUCTOGRAM = flags[1],
                      !.Params.INDUCTOGRAM_IN_PROGRESS = flags[2],
                      !.Params.DO_EXPLOREOGRAM = flags[3]] :
        asym \in BOOLEAN, ft \in BOOLEAN, par \in BOOLEAN,
        flags \in BOOLEAN \X BOOLEAN \X BOOLEAN }

\* conductivities of every kind the floor step tells apart: unusable (NaN,
\* zero, infinite), below the threshold, above it
FloorValues == {NaN, RInt(0), Inf, RInt(5), RInt(20)}

\* The runs of the floor and collapse steps alone: interiors of up to
\* MaxLayers unit layers of ice with every such conductivity and every
\* ionosphere, the ocean reduction and the scaling off
FloorCfgs ==
    UNION { { [BaseCfg EXCEPT
                 !.phase = [k \in 1..N |-> 1], !.sigma_Sm = sg,
                 !.dz_km = [k \in 1..N |-> 1],
                 !.ionosBounds_m = io.b, !.sigmaIonosPedersen_Sm = io.s,
                 !.Params.Sig.REDUCED_INDUCT = FALSE] :
              sg \in [1..N -> FloorValues], io \in IonosChoices } : N \in 1..MaxLayers }

\* the largest interior of the repeated set-ups
RepeatLayers == 2

\* The set-ups that are repeated on one Planet: interiors of up to
\* RepeatLayers unit layers, with and without scaling and ocean reduction, in
\* a new run, and in an inductogram, where the points of a run with
\* CALC_NEW off arrive with their layer arrays set
RepeatCfgs ==
    UNION { { [BaseCfg EXCEPT
                 !.phase = ph, !.sigma_Sm = sg, !.dz_km = [k \in 1..N |-> 1],
                 !.sigmaScaling = sc, !.preset = ind /\ ~new,
                 !.Params.CALC_NEW = new, !.Params.DO_INDUCTOGRAM = ind,
                 !.Params.INDUCTOGRAM_IN_PROGRESS = ind,
                 !.Params.Sig.REDUCED_INDUCT = red] :
              ph \in [1..N -> {0, 1}], sg \in [1..N -> {RInt(5), RInt(20)}],
              sc \in {None, Some(RInt(2))}, new \in BOOLEAN, ind \in BOOLEAN,
              red \in BOOLEAN } : N \in 1..RepeatLayers }

CfgsOf(fam) == IF fam = "reduce" THEN ReduceCfgs
               ELSE IF fam = "repeat" THEN RepeatCfgs
               ELSE IF fam = "floor" THEN FloorCfgs
               ELSE IF fam = "sweep" THEN SweepCfgs
               ELSE IF fam = "shape" THEN ShapeCfgs
               ELSE IF fam = "shapeCache" THEN ShapeCacheCfgs
               ELSE IF fam = "frozen" THEN FrozenCfgs
               ELSE IF fam = "moments" THEN MomentsCfgs
               ELSE IF fam = "reload" THEN ReloadCfgs
               ELSE IF fam = "cache" THEN CacheCfgs
               ELSE InductCfgs

VARIABLES
    family,   \* the family of configurations the runs are drawn from
    planet,   \* the Planet of the current run
    params,   \* the Params of the current run
    loaded,   \* EOSlist.loaded, the process-wide cache
    files,    \* the output files on disk, by path
    saver,    \* for each output file, the Planet as it was when the file was written
    last,     \* what the last operation did
    nRuns     \* the number of runs started

vars == <<family, planet, params, loaded, files, saver, last, nRuns>>

NoOp == [op |-> "new", raised |-> "none", log |-> {}, events |-> << >>, SKIP |-> FALSE,
         moments |-> "none", written |-> {}, reduced |-> FALSE, calls |-> 0,
         before |-> None]

\* the cache and the disk hold nothing
Empty == [k \in {} |-> None]

InitFamily(fam) ==
    /\ family = fam
    /\ \E c \in CfgsOf(fam) : planet = ConfigurePlanet(c) /\ params = ConfigureParams(c)
    /\ loaded = Empty /\ files = Empty /\ saver = Empty
    /\ last = NoOp
    /\ nRuns = 1

\* a new Planet is configured in the same process
NewRun ==
    /\ nRuns < MaxRuns
    /\ \E c \in CfgsOf(family) :
          planet' = ConfigurePlanet(c) /\ params' = ConfigureParams(c)
    /\ last' = NoOp
    /\ nRuns' = nRuns + 1
    /\ UNCHANGED <<family, loaded, files, saver>>

\* the state after SetupInduction has returned su
SetupTaken(su) ==
    /\ planet' = su.Planet /\ params' = su.Params /\ loaded' = su.loaded
    /\ last' = [NoOp EXCEPT !.op = "SetupInduction", !.raised = su.raised,
                            !.log = su.log, !.events = su.events,
                            !.reduced = su.reduced, !.calls = last.calls + 1,
                            !.before = Some(planet)]

\* SetupInduction(Planet, Params) is called
SetupStep ==
    /\ last.op \in {"new", "SetupInduction"} /\ last.raised = "none"
    /\ last.calls < MaxCalls
    /\ SetupTaken(SetupInduction(planet, params, loaded))
    /\ UNCHANGED <<family, files, saver, nRuns>>

\* the state after MagneticInduction has returned st
InduceTaken(st) ==
    /\ planet' = st.Planet /\ params' = st.Params /\ loaded' = st.loaded
    /\ files' = st.files
    /\ saver' = [k \in DOMAIN st.files |->
                   IF k \in DOMAIN files /\ files[k] = st.files[k] THEN saver[k]
                   ELSE st.Planet]
    /\ last' = [NoOp EXCEPT !.op = "MagneticInduction", !.raised = st.raised,
                            !.log = st.log, !.events = st.events, !.SKIP = st.SKIP,
                            !.moments = st.moments, !.written = st.written,
                            !.reduced = st.reduced, !.calls = 1,
                            !.before = Some(planet)]

\* MagneticInduction(Planet, Params) is called
InduceStep ==
    /\ last.op = "new"
    /\ InduceTaken(MagneticInduction(planet, params, loaded, files))
    /\ UNCHANGED <<family, nRuns>>

\* the state after CalcInducedMoments has returned c
CalcTaken(c) ==
    /\ planet' = c.Planet
    /\ files' = WriteFile(files, params.DataFiles.inducedMomentsFile, c.saved)
    /\ saver' = IF c.saved = None THEN saver
                ELSE [k \in DOMAIN saver \cup {params.DataFiles.inducedMomentsFile} |->
                        IF k = params.DataFiles.inducedMomentsFile THEN c.Planet
                        ELSE saver[k]]
    /\ last' = [NoOp EXCEPT !.op = "CalcInducedMoments", !.raised = c.raised,
                            !.log = c.log, !.events = c.events,
                            !.moments = IF c.raised = "none" THEN "calced" ELSE "none",
                            !.written = c.written, !.calls = 1,
                            !.before = Some(planet)]

\* CalcInducedMoments(Planet, Params) is called on a Planet that
\* SetupInduction has prepared
CalcStep ==
    /\ last.op = "SetupInduction" /\ last.raised = "none"
    /\ planet.Magnetic.Benm_nT # None /\ planet.Do.VALID /\ params.CALC_CONDUCT
    /\ CalcTaken(CalcInducedMoments(planet, params))
    /\ UNCHANGED <<family, params, loaded, nRuns>>

\* the state after ReloadMoments has returned r
ReloadTaken(r) ==
    /\ planet' = r.Planet
    /\ last' = [NoOp EXCEPT !.op = "ReloadMoments", !.raised = r.raised,
                            !.log = r.log,
                            !.events = <<Event("read", "inducedMomentsFile", FALSE)>>,
                            !.moments = IF r.raised = "none" THEN "reloaded" ELSE "none",
                            !.calls = 1, !.before = Some(planet)]

\* ReloadMoments(Planet, momentsFile) is called on a new Planet
ReloadStep ==
    /\ last.op = "new"
    /\ params.DataFiles.inducedMomentsFile \in DOMAIN files
    /\ ReloadTaken(ReloadMoments(planet, files[params.DataFiles.inducedMomentsFile]))
    /\ UNCHANGED <<family, params, loaded, files, saver, nRuns>>

\* SetupInduction called again on the Planet it has prepared
SpecRepeat == InitFamily("repeat") /\ [][SetupStep]_vars

\* layer reduction: SetupInduction on every layered interior
SpecReduce == InitFamily("reduce") /\ [][SetupStep]_vars

\* the moments computed on prepared Planets of successive runs
NextMoments == NewRun \/ SetupStep \/ CalcStep
SpecMoments == InitFamily("moments") /\ [][NextMoments]_vars

\* moments saved by one run and reloaded by a later one
NextReload == NewRun \/ InduceStep \/ ReloadStep
SpecReload == InitFamily("reload") /\ [][NextReload]_vars

\* SetupInduction on successive Planets sharing the process-wide cache
NextCache == NewRun \/ SetupStep
SpecCache == InitFamily("cache") /\ [][NextCache]_vars

\* the frozen-ocean check: SetupInduction on profiles with and without liquid
SpecFrozen == InitFamily("frozen") /\ [][SetupStep]_vars

\* the asymmetric shape: SetupInduction with asymmetry requested
SpecShape == InitFamily("shape") /\ [][SetupStep]_vars

\* shape files read by one run and found in the cache by a later one
SpecShapeCache == InitFamily("shapeCache") /\ [][NextCache]_vars

\* the whole stage called once under every setting of the sweep flags
SpecSweep == InitFamily("sweep") /\ [][InduceStep]_vars

\* the floor and collapse steps: SetupInduction without the ocean reduction
SpecFloor == InitFamily("floor") /\ [][SetupStep]_vars

\* the induction stage over successive runs of one process
Next == NewRun \/ SetupStep \/ CalcStep \/ ReloadStep \/ InduceStep
Spec == InitFamily("induct") /\ [][Next]_vars


(* ============================ the properties =========================== *)

\* SetupInduction has returned from its main branch (the conductivity was
\* calculated and the body is valid) having rebuilt the layer arrays
AfterReduce == /\ last.op = "SetupInduction" /\ last.raised = "none" /\ last.reduced

\* C1: after SetupInduction no two adjacent entries of sigmaLayers_Sm are
\* equal, whatever the reduction, the scaling and the ionosphere
C1_NoEqualNeighbours ==
    AfterReduce =>
        \A i \in 1..(Len(planet.Magnetic.sigmaLayers_Sm) - 1) :
            planet.Magnetic.sigmaLayers_Sm[i] # planet.Magnetic.sigmaLayers_Sm[i + 1]

\* C2: for a profile of strictly descending radii, rSigChange_m is strictly
\* increasing after SetupInduction, with the ocean resampled and an
\* ionosphere appended or not
C2_RadiiStrictlyIncreasing ==
    AfterReduce =>
        \A i \in 1..(Len(planet.Magnetic.rSigChange_m) - 1) :
            RLt(planet.Magnetic.rSigChange_m[i], planet.Magnetic.rSigChange_m[i + 1])

\* a resampled ocean of two layers under ice and an ionosphere
C2_Witness ==
    /\ AfterReduce
    /\ params.Sig.REDUCED_INDUCT /\ params.Induct.nIntL = 2
    /\ Len(indsLiqOf(planet)) >= 1 /\ planet.phase[1] # 0
    /\ Len(planet.Magnetic.ionosBounds_m) = 2
    /\ Len(planet.Magnetic.rSigChange_m) >= 5

\* CalcInducedMoments has returned from the layer method with asymmetry off
AfterLayerSym ==
    /\ last.op = "CalcInducedMoments" /\ last.raised = "none"
    /\ planet.Magnetic.inductMethod \in {"Srivastava1966", "layer"}
    /\ ~params.CALC_ASYM

\* the elements (i, sign(m), n, |m|) for n in 1..nprmMax and -n <= m <= n
SymElements(M) ==
    {<<i, IF m < 0 THEN 1 ELSE 0, n, IAbs(m)>> :
        i \in 0..(M.nExc - 1),
        n \in 1..M.nprmMax,
        m \in (0 - M.nprmMax)..M.nprmMax} \cap
    {ix \in (0..(M.nExc - 1)) \X (0..1) \X (1..M.nprmMax) \X (0..M.nprmMax) :
        ix[4] <= ix[3] /\ (ix[2] = 0 \/ ix[4] >= 1)}

\* C3: after the layer method with asymmetry off, Binm_nT at every
\* (i, sign(m), n, |m|) with n in 1..nprmMax, -n <= m <= n is
\* n/(n+1) * Benm_nT there * Aen[i, n], and the loop wrote no other element
C3_SymmetricProduct ==
    AfterLayerSym =>
        LET M == planet.Magnetic
            Binm == M.Binm_nT[1]
            Benm == M.Benm_nT[1]
        IN  /\ \A ix \in SymElements(M) :
                  /\ ix \in DOMAIN Binm.v /\ ix \in DOMAIN Benm.v
                  /\ Binm.v[ix] = CScale(Rat(ix[3], ix[3] + 1),
                                         CMul(Benm.v[ix], M.Aen.v[<<ix[1], ix[3]>>]))
            /\ last.written \subseteq SymElements(M)


\* the method of the other branch of CalcInducedMoments
OtherMethod(method) ==
    IF method \in {"Eckhardt1963", "numeric"} THEN "Srivastava1966" ELSE "Eckhardt1963"

\* the outcomes of the two branches on one prepared Planet have the same
\* Binm_nT whenever neither raised and they have the same Aen and Benm_nT
BranchesAgree(M, other) ==
    (/\ other.raised = "none"
     /\ other.Planet.Magnetic.Aen = M.Aen
     /\ other.Planet.Magnetic.Benm_nT = M.Benm_nT)
    => other.Planet.Magnetic.Binm_nT = M.Binm_nT

\* C4: with asymmetry off, the numeric and the layer branch of
\* CalcInducedMoments give the same Binm_nT on the same prepared Planet
\* whenever they give the same Aen and the same Benm_nT
C4_MethodsInterchangeable ==
    (/\ last.op = "CalcInducedMoments" /\ last.raised = "none"
     /\ ~params.CALC_ASYM)
    => BranchesAgree(planet.Magnetic,
                     CalcInducedMoments([last.before[1] EXCEPT
                                            !.Magnetic.inductMethod = OtherMethod(@)],
                                        params))


\* ReloadMoments has returned; the file it read was written by a run whose
\* Planet, as it was when the file was saved, is StoredPlanet
Reloaded ==
    /\ last.op = "ReloadMoments" /\ last.raised = "none"
    /\ params.DataFiles.inducedMomentsFile \in DOMAIN saver

StoredPlanet == saver[params.DataFiles.inducedMomentsFile]

\* (R / R')^k for the stored radius R and the radius R' of the reloading body
RadiusScaling(k) == RPow(RDiv(StoredPlanet.Bulk.R_m, planet.Bulk.R_m), k)

\* C5: when the stored radius R differs from the radius R' of the reloading
\* body, ReloadMoments leaves Amp scaled by (R/R')^3 and, for every degree n,
\* Aen[:, n], Binm_nT[:, :, n, :] and the BinmLin_nT columns of degree n
\* scaled by (R/R')^(n+2)
C5_RadiusRescaling ==
    (Reloaded /\ StoredPlanet.Bulk.R_m # planet.Bulk.R_m) =>
        LET M == planet.Magnetic
            S == StoredPlanet.Magnetic
        IN  /\ M.Amp = [i \in DOMAIN S.Amp |-> RMul(S.Amp[i], RadiusScaling(3))]
            /\ M.Aen.v = [ix \in DOMAIN S.Aen.v |->
                            IF ix[2] >= 1 THEN CScale(RadiusScaling(ix[2] + 2), S.Aen.v[ix])
                            ELSE S.Aen.v[ix]]
            /\ M.Binm_nT[1].v = [ix \in DOMAIN S.Binm_nT[1].v |->
                            IF ix[3] >= 1
                            THEN CScale(RadiusScaling(ix[3] + 2), S.Binm_nT[1].v[ix])
                            ELSE S.Binm_nT[1].v[ix]]
            /\ M.BinmLin_nT = [i \in DOMAIN S.BinmLin_nT |-> [k \in DOMAIN S.BinmLin_nT[i] |->
                            CScale(RadiusScaling(S.nLin[k] + 2), S.BinmLin_nT[i][k])]]

\* C6: a reload against the radius the set was saved with restores Amp,
\* phase, Aen, Benm_nT, Binm_nT and BinmLin_nT as they were when it was saved
C6_RoundTrip ==
    (Reloaded /\ StoredPlanet.Bulk.R_m = planet.Bulk.R_m) =>
        /\ planet.Magnetic.Amp = StoredPlanet.Magnetic.Amp
        /\ planet.Magnetic.phase = StoredPlanet.Magnetic.phase
        /\ planet.Magnetic.Aen = StoredPlanet.Magnetic.Aen
        /\ planet.Magnetic.Benm_nT = StoredPlanet.Magnetic.Benm_nT
        /\ planet.Magnetic.Binm_nT = StoredPlanet.Magnetic.Binm_nT
        /\ planet.Magnetic.BinmLin_nT = StoredPlanet.Magnetic.BinmLin_nT

\* a set computed with asymmetry, non-zero beyond degree 1, has been reloaded
\* against its own radius
C6_Witness ==
    /\ Reloaded /\ StoredPlanet.Bulk.R_m = planet.Bulk.R_m
    /\ StoredPlanet.Magnetic.pMax = 2
    /\ planet.Magnetic.Binm_nT[1].v[<<0, 0, 2, 1>>] # CZero
    /\ planet.Magnetic.Amp # None


\* SetupInduction has returned from its main branch
AfterSetupMain ==
    /\ last.op = "SetupInduction" /\ last.raised = "none"
    /\ params.CALC_CONDUCT /\ planet.Do.VALID

\* the coupling tensor of the Planet's own nprmMax and pMax
OwnXid(M) == LoadXid(M.nprmMax, M.pMax, M.nprmMax + M.pMax)

\* C7: after a SetupInduction call with asymmetry on, Magnetic.Xid is the
\* tensor of that call's own (nprmMax, pMax, nprmMax + pMax), and the cache
\* holds an entry with that tensor
C7_XidKeyedByTriple ==
    (AfterSetupMain /\ params.CALC_ASYM) =>
        /\ planet.Magnetic.Xid = Some(OwnXid(planet.Magnetic))
        /\ \E k \in DOMAIN loaded : loaded[k] = OwnXid(planet.Magnetic)

\* GetBexc was called by the SetupInduction that has just returned
CalledGetBexc == AfterSetupMain /\ ~params.DO_INDUCTOGRAM

\* the degree cap GetBexc applies to nprmMax
CappedNprmMax(M) == IF M.nprmMax > 1 THEN 1 ELSE M.nprmMax

\* C8: a non-null result of GetBexc has Benm_nT of shape
\* n_selected x 2 x (nprmMax+pMax+1) x (nprmMax+pMax+1) for the capped nprmMax
\* and the pMax of the call, whether or not it came from the cache
C8_BenmShape ==
    (CalledGetBexc /\ planet.Magnetic.Benm_nT # None) =>
        LET M == planet.Magnetic
            Benm == M.Benm_nT[1]
            D == CappedNprmMax(M) + M.pMax + 1
        IN  /\ Benm.n1 = Len(PeakNames(planet.name, params.Induct.excSelectionCalc))
            /\ Benm.D = D
            /\ DOMAIN Benm.v = Idx4(Benm.n1, D)

\* the excitation file and the cache label of the Planet's GetBexc call
ExcFileOf(P) ==
    <<IF IsTestBody(P.name) THEN "Test" ELSE P.name, P.Magnetic.SCera, P.Magnetic.extModel>>
BeLabelOf(P, Params) ==
    BeLabel(P.name, P.Magnetic.SCera, P.Magnetic.extModel, Params.Induct.excSelectionCalc,
            P.Magnetic.nprmMax)

\* C9: when no excitation file exists for the body, era and model, GetBexc
\* returns None for all four outputs and the cache has no entry under the
\* call's label afterwards
C9_NullSpectrumNotCached ==
    (CalledGetBexc /\ ExcFileOf(planet) \notin ExcFileKeys) =>
        /\ planet.Magnetic.Texc_hr = None
        /\ planet.Magnetic.omegaExc_radps = None
        /\ planet.Magnetic.Benm_nT = None
        /\ planet.Magnetic.B0_nT = None
        /\ BeLabelOf(planet, params) \notin DOMAIN loaded

\* a second call for an era without a file, in a process whose cache already
\* holds the spectrum of another era
C9_Witness ==
    /\ CalledGetBexc /\ ExcFileOf(planet) \notin ExcFileKeys
    /\ last.calls = 2
    /\ planet.Magnetic.Benm_nT = None
    /\ \E k \in DOMAIN loaded : Len(k) = 6 /\ k[2] = "Be"


\* MagneticInduction has returned without induced moments computed or reloaded
ReturnedWithoutMoments ==
    /\ last.op = "MagneticInduction" /\ last.raised = "none"
    /\ last.moments = "none"

\* the value of an ionosphere field after the call is a list of
\* not-a-number placeholders when the field was unset before it
Placeholder(before, after) ==
    before = None =>
        /\ after # None
        /\ Len(after) >= 1
        /\ \A i \in DOMAIN after : isnan(after[i])

\* C10: when MagneticInduction returns without induced moments, the
\* ionosphere fields that were unset hold not-a-number placeholders and
\* calcedExc is the empty list
C10_PlaceholdersWithoutMoments ==
    ReturnedWithoutMoments =>
        /\ Placeholder(last.before[1].Magnetic.ionosBounds_m,
                       planet.Magnetic.ionosBounds_m)
        /\ Placeholder(last.before[1].Magnetic.sigmaIonosPedersen_Sm,
                       planet.Magnetic.sigmaIonosPedersen_Sm)
        /\ planet.Magnetic.calcedExc = Some(<< >>)



\* the Planet as it was handed to the last operation
Before == last.before[1]

\* the profile has no layer of phase 0
NoLiquid(P) == \A i \in DOMAIN P.phase : P.phase[i] # 0

\* C11 (as stated): SetupInduction marks every profile without a liquid
\* layer invalid outside the sigma mode, except for a waterless body in the
\* reduced mode, and never marks a profile with a liquid layer
C11_FrozenFlaggedInvalid ==
    last.op = "SetupInduction" /\ Before.Do.VALID =>
        /\ (/\ NoLiquid(Before) /\ params.Induct.inductOtype # "sigma"
            /\ ~(params.Sig.REDUCED_INDUCT /\ Before.Do.NO_H2O))
              => ~planet.Do.VALID
        /\ ~NoLiquid(Before) => planet.Do.VALID

\* C11 (amended): SetupInduction marks a valid profile invalid exactly when
\* it has no liquid layer, the run is not in the sigma mode and it is an
\* inductogram; the reason recorded is the frozen ocean, and a profile with a
\* liquid layer is never marked
C11_FrozenFlaggedInInductogram ==
    last.op = "SetupInduction" /\ Before.Do.VALID =>
        /\ ~planet.Do.VALID <=>
               (/\ NoLiquid(Before) /\ params.Induct.inductOtype # "sigma"
                /\ params.DO_INDUCTOGRAM)
        /\ ~planet.Do.VALID =>
               planet.invalidReason = "Ocean completely frozen in inductogram"

\* a frozen profile of an inductogram was marked invalid
C11_Witness ==
    /\ last.op = "SetupInduction" /\ Before.Do.VALID
    /\ NoLiquid(Before) /\ params.DO_INDUCTOGRAM
    /\ ~planet.Do.VALID



\* the method names CalcInducedMoments recognises
KnownMethods == {"Eckhardt1963", "numeric", "Srivastava1966", "layer"}

\* C12: CalcInducedMoments called with any other inductMethod raises
\* ValueError, alone or within MagneticInduction, without a solver call or a
\* file write, and no induced-moments file on disk was written by such a run
C12_UnknownMethodRaises ==
    /\ (/\ last.op = "CalcInducedMoments"
        /\ Before.Magnetic.inductMethod \notin KnownMethods)
          => last.raised = "ValueError" /\ last.events = << >>
    /\ (/\ last.op = "MagneticInduction"
        /\ Before.Magnetic.inductMethod \notin KnownMethods
        /\ Before.Do.VALID /\ params.CALC_CONDUCT /\ params.CALC_NEW_INDUCT
        /\ planet.Magnetic.Benm_nT # None)
          => /\ last.raised = "ValueError"
             /\ \A k \in DOMAIN last.events : last.events[k].kind # "write"
    /\ \A f \in DOMAIN files :
          f = params.DataFiles.inducedMomentsFile =>
              saver[f].Magnetic.inductMethod \in KnownMethods

\* CalcInducedMoments was called with an unknown method name and raised
C12_Witness ==
    /\ last.op = "CalcInducedMoments"
    /\ Before.Magnetic.inductMethod \notin KnownMethods
    /\ last.raised = "ValueError"



\* SetupInduction has called SetAsymShape: its main branch was reached, with
\* asymmetry requested and a degree cap other than 0
CalledSetAsymShape ==
    /\ last.op = "SetupInduction"
    /\ Before.Do.VALID /\ planet.Do.VALID /\ params.CALC_CONDUCT /\ params.CALC_ASYM

\* the shape files SetAsymShape uses for the Planet P
UsedShapeFiles(P, Params) ==
    IF Params.Sig.CONCENTRIC_ASYM
    THEN {k \in Range(ShapeFilesOf(P)) : k = <<P.name, "">>}
    ELSE Range(ShapeFilesOf(P))

\* some file SetAsymShape uses has a first row other than p, q = 0, 0
UsesMalformedFile ==
    \E k \in UsedShapeFiles(Before, params) :
        ShapeFile(k).pLin[1] # 0 \/ ShapeFile(k).qLin[1] # 0

\* C13: SetAsymShape raises RuntimeError whenever a file it uses does not
\* start at p, q = 0, 0, in concentric and in per-boundary mode, on a first
\* read and when the contents come from the cache
C13_MalformedShapeRaises ==
    CalledSetAsymShape /\ UsesMalformedFile => last.raised = "RuntimeError"

\* a malformed file taken from the cache made SetAsymShape raise
C13_Witness ==
    /\ CalledSetAsymShape /\ UsesMalformedFile
    /\ last.raised = "RuntimeError"
    /\ \A k \in DOMAIN last.events : last.events[k].kind # "read"



\* SetAsymShape was called and returned
AfterSetAsymShape == CalledSetAsymShape /\ last.raised = "none"

\* C14: after SetAsymShape, in each of its three branches, the degree-0
\* coefficient asymShape_m[i, 0, 0, 0] of every boundary i is rSigChange_m[i]
C14_DegreeZeroIsRadius ==
    AfterSetAsymShape =>
        \A i \in 1..planet.Magnetic.nBds :
            planet.Magnetic.asymShape_m[1].v[<<i - 1, 0, 0, 0>>]
                = Cx(planet.Magnetic.rSigChange_m[i], RInt(0))



\* no usable shape file: no match in either search path, or in concentric
\* mode the exact file is absent
NoUsableShapeFile == UsedShapeFiles(Before, params) = {}

\* the gravity shape SetGravShape derives for the boundaries of P
GravityShapeOf(P) ==
    SetGravShape([P EXCEPT !.Magnetic.gravShape_m =
                      Some(Zeros4(P.Magnetic.nBds, 3))]).Magnetic.gravShape_m

\* C15: without a usable shape file SetAsymShape warns and falls back to
\* gravity only: pMax = 2, asymShape_m of shape (nBds, 2, 3, 3) with zeros
\* at every degree >= 1, gravShape_m the gravity-derived coefficients
C15_GravityOnlyFallback ==
    CalledSetAsymShape /\ NoUsableShapeFile =>
        /\ last.raised = "none"
        /\ "gravityOnly" \in last.log
        /\ planet.Magnetic.pMax = 2
        /\ planet.Magnetic.asymShape_m[1].n1 = planet.Magnetic.nBds
        /\ planet.Magnetic.asymShape_m[1].D = 3
        /\ \A ix \in DOMAIN planet.Magnetic.asymShape_m[1].v :
              ix[3] >= 1 => planet.Magnetic.asymShape_m[1].v[ix] = CZero
        /\ planet.Magnetic.gravShape_m = GravityShapeOf(planet)

\* the fallback was taken in concentric mode with other files of the body
\* present, a cap of 3 was requested, and the gravity shape is not zero
C15_Witness ==
    /\ CalledSetAsymShape /\ NoUsableShapeFile
    /\ params.Sig.CONCENTRIC_ASYM /\ Len(ShapeFilesOf(Before)) > 0
    /\ Before.Magnetic.pMax = 3 /\ planet.Magnetic.pMax = 2
    /\ \E ix \in DOMAIN planet.Magnetic.gravShape_m[1].v :
          ix[3] = 2 /\ planet.Magnetic.gravShape_m[1].v[ix] # CZero



\* C16: every run of the shape family requests asymmetry; when low degree
\* caps are not allowed, the first SetupInduction of a run that returns ends
\* with Magnetic.pMax >= 2 and with asymmetry still enabled
C16_DegreeCapAtLeastTwo ==
    /\ family = "shape" /\ last.op = "SetupInduction" /\ last.calls = 1
    /\ last.raised = "none" /\ planet.Do.VALID /\ params.CALC_CONDUCT
    /\ ~params.Sig.ALLOW_LOW_PMAX
    => planet.Magnetic.pMax >= 2 /\ params.CALC_ASYM



\* SetAsymShape returned from its concentric branch
AfterConcentric ==
    AfterSetAsymShape /\ params.Sig.CONCENTRIC_ASYM /\ ~NoUsableShapeFile

\* the reference radius of the concentric shape file of the Planet P
FileRadius(P) ==
    RSub(P.Bulk.R_m, RMul(ShapeFile(<<P.name, "">>).Cpq_km[1], RInt(1000)))

\* the entry ix of asymShape_m is the converted coefficient of the file of
\* P scaled by the radius of its layer over the radius of the file
ScaledFromFile(P, ix) ==
    P.Magnetic.asymShape_m[1].v[ix] =
        CScale(RDiv(P.Magnetic.rSigChange_m[ix[1] + 1], FileRadius(P)),
               FileChipq(ShapeFile(<<P.name, "">>), ix[3])[<<ix[2], ix[4]>>])

\* C17: in concentric mode every coefficient of degree p >= 1 and order
\* |q| <= p of every layer is the converted coefficient of the one file
\* times R_layer / R_file
C17_ConcentricScaling ==
    AfterConcentric =>
        \A ix \in DOMAIN planet.Magnetic.asymShape_m[1].v :
            ix[3] >= 1 /\ ix[4] <= ix[3] => ScaledFromFile(planet, ix)

\* a non-zero coefficient was written to a layer whose radius is not that of
\* the file
C17_Witness ==
    /\ AfterConcentric
    /\ \E ix \in DOMAIN planet.Magnetic.asymShape_m[1].v :
          /\ ix[3] >= 1 /\ planet.Magnetic.asymShape_m[1].v[ix] # CZero
          /\ planet.Magnetic.rSigChange_m[ix[1] + 1] # FileRadius(planet)



\* the routines that may hand their work to a worker pool
PoolRoutines == {"AeList", "BiAsym", "GetrSurf", "LoadXid"}

\* C18: within a MagneticInduction call that is part of a sweep (inductogram
\* in progress, or exploreogram) every call of AeList, BiAsym, GetrSurf and
\* LoadXid is given do_parallel = False, whatever DO_PARALLEL is
C18_NoNestedParallelism ==
    /\ last.op = "MagneticInduction"
    /\ params.INDUCTOGRAM_IN_PROGRESS \/ params.DO_EXPLOREOGRAM
    => \A k \in DOMAIN last.events :
          last.events[k].what \in PoolRoutines => ~last.events[k].par



\* the solver routines: ODEsolve is the integration inside SolveForQ
Solvers == {"ODEsolve", "AeList", "BiAsym"}

\* the positions of the solver invocations in the trace of the last call
SolverSteps == {k \in DOMAIN last.events : last.events[k].what \in Solvers}

\* C19: within one MagneticInduction call every file read comes before the
\* first solver invocation and every file write after the last one
C19_ReadsSolvesWrites ==
    last.op = "MagneticInduction" =>
        \A k \in DOMAIN last.events, j \in SolverSteps :
            /\ last.events[k].kind = "read" => k < j
            /\ last.events[k].kind = "write" => k > j



\* the radius persisted in the induced-moments file, in m
PersistedRadius ==
    RMul(files[params.DataFiles.inducedMomentsFile].R_km[1][1], RInt(1000))

\* | persisted radius - current radius | / current radius
RadiusMismatch ==
    RAbs(RDiv(RSub(PersistedRadius, planet.Bulk.R_m), planet.Bulk.R_m))

\* C20: ReloadMoments warns and rescales exactly when the relative mismatch
\* of the two radii exceeds 1e-6 in magnitude, whichever is the larger; within
\* the tolerance the response amplitudes are those of the file
C20_RescaleBeyondTolerance ==
    Reloaded =>
        /\ "radiusDiffers" \in last.log <=> RGt(RadiusMismatch, Rat(1, 1000000))
        /\ planet.Magnetic.Aen # files[params.DataFiles.inducedMomentsFile].Aen
              <=> RGt(RadiusMismatch, Rat(1, 1000000))



\* SetupInduction has rebuilt the layer arrays with neither the ocean
\* reduction nor the scaling, so that sigmaLayers_Sm holds floored values as
\* the floor step left them
AfterFloorOnly ==
    /\ AfterReduce
    /\ ~params.Sig.REDUCED_INDUCT /\ planet.Magnetic.sigmaScaling = None

\* C21: after the floor step every conductivity is finite, non-zero and not
\* below Constants.sigmaMin_Sm
C21_FlooredFiniteNonzero ==
    AfterFloorOnly =>
        \A i \in DOMAIN planet.Magnetic.sigmaLayers_Sm :
            /\ isfinite(planet.Magnetic.sigmaLayers_Sm[i])
            /\ RGe(planet.Magnetic.sigmaLayers_Sm[i], RInt(sigmaMin_Sm))



\* The full profile SetupInduction collapses, in ascending radius: the outer
\* radius of every layer and of every ionosphere layer, and the floored
\* conductivities
FullRadii(P) ==
    Flip(Slice(P.r_m, 1, Len(P.r_m) - 1)) \o IonosArrays(P).zIonos_m
FullSigma(P) ==
    FloorSigma(Flip(P.sigma_Sm) \o IonosArrays(P).sigmaIonos_Sm)

\* a..b is a maximal run of consecutive layers with one conductivity
IsRun(sg, a, b) ==
    /\ a <= b
    /\ \A i \in a..b : sg[i] = sg[a]
    /\ a = 1 \/ sg[a - 1] # sg[a]
    /\ b = Len(sg) \/ sg[b + 1] # sg[b]

\* the boundaries of the output that lie within the layers a..b
BoundariesIn(rL, outR, a, b) ==
    {j \in DOMAIN outR : \E i \in a..b : outR[j] = rL[i]}

\* every run of the profile has one boundary in the output, at the outer
\* radius of its last layer (outer) or of its first one, and the output has
\* no other boundary
RunsKeptAt(rL, sg, outR, outS, outer) ==
    /\ \A a, b \in DOMAIN sg :
          IsRun(sg, a, b) =>
              /\ Cardinality(BoundariesIn(rL, outR, a, b)) = 1
              /\ \A j \in BoundariesIn(rL, outR, a, b) :
                    /\ outR[j] = rL[IF outer THEN b ELSE a]
                    /\ outS[j] = sg[a]
    /\ Len(outR) = Cardinality({a \in DOMAIN sg : a = 1 \/ sg[a - 1] # sg[a]})
    /\ Len(outS) = Len(outR)

\* C22 (as stated): each run of layers with one conductivity is kept as a
\* single boundary at the deepest radius of the run
C22_RunKeptAtDeepestRadius ==
    AfterFloorOnly =>
        RunsKeptAt(FullRadii(Before), FullSigma(Before),
                   planet.Magnetic.rSigChange_m, planet.Magnetic.sigmaLayers_Sm, FALSE)

\* C22 (amended): each run of layers with one conductivity is kept as a
\* single boundary at the outermost radius of the run, where the
\* conductivity differs from the next layer outward
C22_RunKeptAtOuterRadius ==
    AfterFloorOnly =>
        RunsKeptAt(FullRadii(Before), FullSigma(Before),
                   planet.Magnetic.rSigChange_m, planet.Magnetic.sigmaLayers_Sm, TRUE)

\* a run of three layers was collapsed into one boundary
C22_Witness ==
    /\ AfterFloorOnly
    /\ \E a \in DOMAIN FullSigma(Before) :
          a + 2 \in DOMAIN FullSigma(Before) /\ IsRun(FullSigma(Before), a, a + 2)
    /\ Len(planet.Magnetic.rSigChange_m) < Len(FullRadii(Before))



\* the radius r lies strictly between the silicate boundary and the base of
\* the ice shell of P, all in metres
InOcean(P, r) ==
    /\ RGt(r, RSub(P.Bulk.R_m, RMul(RAdd(P.zb_km, P.D_km), RInt(1000))))
    /\ RLt(r, RSub(P.Bulk.R_m, RMul(P.zb_km, RInt(1000))))

\* the conductivities unscaled are those of scaled with exactly the layers
\* of P between the silicate boundary and the ice base multiplied by k
ScaledInOcean(P, unscaled, scaled, k) ==
    scaled = [i \in DOMAIN unscaled |->
                 IF InOcean(P, P.Magnetic.rSigChange_m[i])
                 THEN RMul(unscaled[i], k) ELSE unscaled[i]]

\* C23: with sigmaScaling set, SetupInduction multiplies by it exactly the
\* reduced layers whose radius lies strictly between the silicate boundary
\* and the ice-shell base, and leaves every other layer as reduced
C23_ScalingOnlyInOcean ==
    AfterReduce /\ planet.Magnetic.sigmaScaling # None =>
        ScaledInOcean(planet, ReduceLayers(Before, params).Magnetic.sigmaLayers_Sm,
                      planet.Magnetic.sigmaLayers_Sm, planet.Magnetic.sigmaScaling[1])



\* SetAsymShape returned from its per-boundary branch with at least one file
AfterPerBoundary ==
    AfterSetAsymShape /\ ~params.Sig.CONCENTRIC_ASYM /\ ~NoUsableShapeFile

\* the reference radius of the shape file f of the Planet P
RefRadius(P, f) == RSub(P.Bulk.R_m, RMul(f.Cpq_km[1], RInt(1000)))

\* the boundary (0-based) of P nearest to the reference radius of the file f
NearestBoundary(P, f) == ArgMinAbs(P.Magnetic.rSigChange_m, RefRadius(P, f)) - 1

\* what the file f adds to the entry ix of asymShape_m of P: its converted
\* coefficient with the radius-ratio correction on its own boundary up to
\* its highest non-zero degree, nothing elsewhere
FileAdds(P, f, ix) ==
    IF /\ NearestBoundary(P, f) = ix[1]
       /\ ix[3] <= pMaxNonzeroOf(f) /\ ix[3] <= P.Magnetic.pMax
    THEN CScale(RDiv(RefRadius(P, f), P.Magnetic.rSigChange_m[ix[1] + 1]),
                FileChipq(f, ix[3])[<<ix[2], ix[4]>>])
    ELSE CZero

\* the sum of what the files keys[1..n] add to the entry ix
RECURSIVE FilesAdd(_, _, _, _)
FilesAdd(P, keys, n, ix) ==
    IF n = 0 THEN CZero
    ELSE CAdd(FilesAdd(P, keys, n - 1, ix), FileAdds(P, ShapeFile(keys[n]), ix))

\* C24: in per-boundary mode every coefficient of degree >= 1 of every
\* layer is the sum of the contributions of the files whose nearest boundary
\* that layer is; a file adds nothing to any other layer, and files on one
\* boundary add up
C24_PerBoundaryAccumulates ==
    AfterPerBoundary =>
        \A ix \in DOMAIN planet.Magnetic.asymShape_m[1].v :
            ix[3] >= 1 /\ ix[4] <= ix[3] =>
                planet.Magnetic.asymShape_m[1].v[ix]
                    = FilesAdd(planet, ShapeFilesOf(Before), Len(ShapeFilesOf(Before)), ix)

\* two files landed on one boundary of a body with a second boundary, and
\* both added a non-zero coefficient of one degree and order to it
C24_Witness ==
    /\ AfterPerBoundary /\ planet.Magnetic.nBds = 2
    /\ Len(ShapeFilesOf(Before)) = 2
    /\ \E ix \in DOMAIN planet.Magnetic.asymShape_m[1].v :
          /\ ix[3] >= 1 /\ ix[4] <= ix[3]
          /\ FileAdds(planet, ShapeFile(ShapeFilesOf(Before)[1]), ix) # CZero
          /\ FileAdds(planet, ShapeFile(ShapeFilesOf(Before)[2]), ix) # CZero



\* CalcInducedMoments returned with the moments of either method
AfterMoments == last.op = "CalcInducedMoments" /\ last.raised = "none"

\* C25: after CalcInducedMoments, BinmLin_nT[i, k] is the tensor element
\* Binm_nT[i, sign index of m, n, |m|] for (n, m) = (nLin[k], mLin[k]), for
\* negative orders as for the others and for every nMax >= 1
C25_LinearMatchesTensor ==
    AfterMoments =>
        LET M == planet.Magnetic
        IN  \A i \in 1..M.nExc : \A k \in 1..Len(M.nLin) :
                M.BinmLin_nT[i][k]
                    = M.Binm_nT[1].v[<<i - 1, IF M.mLin[k] < 0 THEN 1 ELSE 0,
                                      M.nLin[k], IAbs(M.mLin[k])>>]



\* the response amplitude of degree n for the excitation i (0-based) of the
\* Planet P, as the method of P evaluates it
AenOf(P, i, n) ==
    LET M == P.Magnetic
    IN  IF M.inductMethod \in {"Eckhardt1963", "numeric"}
        THEN CScale(Rat(n + 1, n),
                    SolveForQ(n, M.sigmaLayers_Sm, M.omegaExc_radps[1][i + 1],
                              M.rSigChange_m, P.Bulk.R_m))
        ELSE AeList(M.rSigChange_m, M.sigmaLayers_Sm, M.omegaExc_radps[1],
                    P.Bulk.R_m, n)[i + 1]

\* C26: after CalcInducedMoments with either method, Aen[:, n] holds the
\* evaluated response amplitude for every degree n in 1..nprmMax; none is
\* left at its initial zero
C26_EveryDegreeEvaluated ==
    AfterMoments =>
        LET M == planet.Magnetic
        IN  \A n \in 1..M.nprmMax : \A i \in 0..(M.nExc - 1) :
                /\ M.Aen.v[<<i, n>>] = AenOf(planet, i, n)
                /\ M.Aen.v[<<i, n>>] # CZero



\* CalcInducedMoments returned with the moments of the numeric method
AfterNumeric ==
    AfterMoments /\ planet.Magnetic.inductMethod \in {"Eckhardt1963", "numeric"}

\* the shape tensor t (or None) with every coefficient multiplied by c
ShapeTimes(t, c) ==
    IF t = None THEN None
    ELSE Some([t[1] EXCEPT !.v = [ix \in DOMAIN @ |-> CScale(RInt(c), @[ix])]])

\* Planets that differ from P only in asymShape_m, gravShape_m and Xid
ShapeVariants(P) ==
    { [P EXCEPT !.Magnetic.asymShape_m = ShapeTimes(@, a),
                !.Magnetic.gravShape_m = ShapeTimes(@, g),
                !.Magnetic.Xid = x] :
        a \in {0, 1, 2}, g \in {0, 1, 2},
        x \in {P.Magnetic.Xid, None, Some(LoadXid(1, 3, 4))} }

\* the quantities the induction calculation produces for the Planet P
Response(P) ==
    <<P.Magnetic.Aen, P.Magnetic.Amp, P.Magnetic.phase, P.Magnetic.Binm_nT>>

\* C27: with the numeric method, a run that differs only in asymShape_m,
\* gravShape_m and the coupling tensor gives the same Aen, Amp, phase and
\* Binm_nT, and the warning is logged whenever CALC_ASYM is set
C27_NumericIgnoresShape ==
    AfterNumeric =>
        /\ \A Q \in ShapeVariants(Before) :
              LET other == CalcInducedMoments(Q, params)
              IN  other.raised = "none" /\ Response(other.Planet) = Response(planet)
        /\ params.CALC_ASYM => "asymIgnored" \in last.log

\* the numeric method ran with asymmetry requested on a Planet with a
\* non-zero shape, so that its variants do differ from it
C27_Witness ==
    /\ AfterNumeric /\ params.CALC_ASYM
    /\ planet.Magnetic.asymShape_m # None
    /\ ShapeTimes(planet.Magnetic.asymShape_m, 0) # planet.Magnetic.asymShape_m
    /\ planet.Magnetic.gravShape_m # None
    /\ ShapeTimes(planet.Magnetic.gravShape_m, 0) # planet.Magnetic.gravShape_m
    /\ planet.Magnetic.Amp # None



\* MagneticInduction returned after CalcAsymContours evaluated the boundaries
\* and saved them
AfterContours ==
    /\ last.op = "MagneticInduction" /\ last.raised = "none"
    /\ \E k \in DOMAIN last.events : last.events[k] = Event("write", "asymFile", FALSE)
    /\ params.DataFiles.asymFile \in DOMAIN files

\* the type of a boundary of mean depth zMean_km on a body whose ice shell
\* is zb_km thick
TypeByDepth(zMean_km, zb_km) ==
    IF REq(zMean_km, RInt(0)) THEN "surf"
    ELSE IF RLt(zMean_km, RInt(0)) THEN "ionos"
    ELSE IF REq(zMean_km, zb_km) THEN "ice"
    ELSE "depth"

\* C28: after CalcAsymContours every one of the nAsymBds evaluated
\* boundaries has its type by mean depth in the classification recorded on
\* the Planet and in the one saved to the file
C28_EveryBoundaryClassified ==
    AfterContours =>
        LET M == planet.Magnetic
        IN  \A i \in 1..M.nAsymBds :
                /\ M.asymPlotType = TypeByDepth(M.zMeanAsym_km[i], planet.zb_km)
                /\ files[params.DataFiles.asymFile].asymPlotType
                       = MatRow(TypeByDepth(M.zMeanAsym_km[i], planet.zb_km))



\* the modulus |z|, taken on the multiple of z by the common denominator L
\* of its two parts and divided by L again
ModulusOf(z) ==
    LET L == (z[1][2] * z[2][2]) \div GCD(z[1][2], z[2][2])
    IN  RDiv(CAbs(CScale(RInt(L), z)), RInt(L))

\* C29: ReloadMoments completes for every persisted set, asymmetric ones
\* whose highest linear degree exceeds nprmMax included, with or without the
\* radius rescale, and leaves Amp = |Aen[:, 1]| and every BinmLin_nT entry
\* equal to the element of Binm_nT that the linear lists address
C29_ReloadConsistent ==
    last.op = "ReloadMoments" =>
        LET M == planet.Magnetic
        IN  /\ last.raised = "none"
            /\ M.Amp = [i \in 1..M.nExc |-> ModulusOf(M.Aen.v[<<i - 1, 1>>])]
            /\ \A i \in 1..M.nExc : \A k \in 1..Len(M.nLin) :
                   M.BinmLin_nT[i][k]
                       = M.Binm_nT[1].v[At(M.Binm_nT[1], i - 1, M.nLin[k], M.mLin[k])]



\* SetupInduction has returned from its main branch for the second time on
\* one Planet
AfterSecondSetup ==
    /\ last.op = "SetupInduction" /\ last.raised = "none" /\ last.calls = 2
    /\ planet.Do.VALID /\ params.CALC_CONDUCT

\* C30: a second SetupInduction call on the same Planet with the same
\* configuration leaves sigmaLayers_Sm and rSigChange_m as the first call
\* left them; sigmaScaling is applied at most once
C30_SetupIdempotent ==
    AfterSecondSetup =>
        /\ planet.Magnetic.sigmaLayers_Sm = Before.Magnetic.sigmaLayers_Sm
        /\ planet.Magnetic.rSigChange_m = Before.Magnetic.rSigChange_m


=============================================================================
